---------------------------- MODULE Spec2Model ----------------------------
(***************************************************************************)
(* A model of the influence-estimation oracle (FastRSInfluenceOracle) and  *)
(* of the greedy influence maximisation (SKIM) of ms-skim.                 *)
(*                                                                         *)
(* Vertex ids, instances and ranks are 0-based as in the source; TLA+      *)
(* sequences are 1-based, so a C++ vector x is the sequence with           *)
(* x[j] (C++) = x[j + 1] (here).  At(x, j) reads the C++ index j.          *)
(***************************************************************************)
EXTENDS Integers, Sequences, FiniteSets, TLC

(***************************************************************************)
(* 32-bit unsigned arithmetic.  A uint32_t is the pair <<hi, lo>> of its   *)
(* 16-bit halves, so that no intermediate value leaves the range of the    *)
(* model checker's integers.                                               *)
(***************************************************************************)
Pow2(n) == 2 ^ n

Half == Pow2(16)

U32(hi, lo) == <<hi, lo>>

Hi(x) == x[1]

Lo(x) == x[2]

\* uint32_t from a non-negative integer below 2^31.
ToU32(x) == U32(x \div Half, x % Half)

RECURSIVE XorBits(_, _, _)
XorBits(a, b, n) ==
    IF n = 0 THEN 0
    ELSE ((a + b) % 2) + (2 * XorBits(a \div 2, b \div 2, n - 1))

\* operator^ on uint32_t.
Xor32(x, y) == U32(XorBits(Hi(x), Hi(y), 16), XorBits(Lo(x), Lo(y), 16))

\* operator+ on uint32_t (wraps modulo 2^32).
Add32(x, y) ==
    LET lo == Lo(x) + Lo(y)
        hi == Hi(x) + Hi(y) + (lo \div Half)
    IN  U32(hi % Half, lo % Half)

\* operator* on uint32_t (wraps modulo 2^32), by 8-bit limbs.
Mul32(x, y) ==
    LET x0 == Lo(x) % 256
        x1 == Lo(x) \div 256
        x2 == Hi(x) % 256
        x3 == Hi(x) \div 256
        y0 == Lo(y) % 256
        y1 == Lo(y) \div 256
        y2 == Hi(y) % 256
        y3 == Hi(y) \div 256
        c0 == x0 * y0
        c1 == (x0 * y1) + (x1 * y0) + (c0 \div 256)
        c2 == (x0 * y2) + (x1 * y1) + (x2 * y0) + (c1 \div 256)
        c3 == (x0 * y3) + (x1 * y2) + (x2 * y1) + (x3 * y0) + (c2 \div 256)
    IN  U32(((c3 % 256) * 256) + (c2 % 256), ((c1 % 256) * 256) + (c0 % 256))

\* _rotl(x, r) for 0 < r < 16.
Rotl32(x, r) ==
    U32(((Hi(x) * Pow2(r)) % Half) + (Lo(x) \div Pow2(16 - r)),
        ((Lo(x) * Pow2(r)) % Half) + (Hi(x) \div Pow2(16 - r)))

\* x >> r for 0 < r <= 16.
Shr32(x, r) ==
    U32(Hi(x) \div Pow2(r),
        (Lo(x) \div Pow2(r)) + ((Hi(x) % Pow2(r)) * Pow2(16 - r)))

\* x % m for 0 < m <= 3000000.
Mod32(x, m) == ((((Hi(x) * 256) % m) * 256) + Lo(x)) % m

(***************************************************************************)
(* The IC instance oracle: Murmur3Hash and Contained, which SKIM and       *)
(* FastRSInfluenceOracle each define for themselves.                       *)
(***************************************************************************)
resolution == 3000000

triprob == <<resolution \div 10, resolution \div 100, resolution \div 1000>>

\* SetBinaryProbability(prob) with prob = num / den: uint32_t(prob * resolution).
SetBinaryProbability(num, den) == (num * resolution) \div den

MurmurC1 == U32(52382, 11601)    \* 0xcc9e2d51

MurmurC2 == U32(7047, 13715)     \* 0x1b873593

MurmurN == U32(58964, 27492)     \* 0xe6546b64

MurmurF1 == U32(34283, 51819)    \* 0x85ebca6b

MurmurF2 == U32(49842, 44597)    \* 0xc2b2ae35

\* k *= c1; k = _rotl(k, 15); k *= c2;
MurmurScramble(k) == Mul32(Rotl32(Mul32(k, MurmurC1), 15), MurmurC2)

\* h ^= k; h = _rotl(h, 13); h = h * 5 + 0xe6546b64;
MurmurRound(h, k) == Add32(Mul32(Rotl32(Xor32(h, k), 13), ToU32(5)), MurmurN)

\* h ^= 10; h ^= h >> 16; h *= 0x85ebca6b; h ^= h >> 13; h *= 0xc2b2ae35; h ^= h >> 16;
MurmurMix(h0) ==
    LET h1 == Xor32(h0, ToU32(10))
        h2 == Xor32(h1, Shr32(h1, 16))
        h3 == Mul32(h2, MurmurF1)
        h4 == Xor32(h3, Shr32(h3, 13))
        h5 == Mul32(h4, MurmurF2)
    IN  Xor32(h5, Shr32(h5, 16))

\* The hash of (u, v, i), seeded with (randomSeed << 16) + l.
Murmur3Hash(randomSeed, u, v, i, l) ==
    LET h0 == U32(randomSeed % Half, l)
        h1 == MurmurRound(h0, MurmurScramble(ToU32(u)))
        h2 == MurmurRound(h1, MurmurScramble(ToU32(v)))
        h3 == Xor32(h2, MurmurScramble(ToU32(i)))
    IN  MurmurMix(h3)

\* C++ index j of the vector x.
At(x, j) == x[j + 1]

Min(a, b) == IF a < b THEN a ELSE b

Max(a, b) == IF a < b THEN b ELSE a

Range(x) == {x[j] : j \in DOMAIN x}

(***************************************************************************)
(* The graph: per vertex the block arcs[vertices[u] .. vertices[u + 1]) of *)
(* arc records, as ReadFromArcList leaves them.                            *)
(***************************************************************************)
FastArc(other, fwd, bwd) ==
    [OtherVertexId |-> other, Forward |-> fwd, Backward |-> bwd]

\* A comparison that looks at the other vertex only.
ArcLessByVertexOnly(x, y) == x.OtherVertexId < y.OtherVertexId

\* A comparison that looks at the flags only.
ArcLessByFlagsOnly(x, y) ==
    LET a == IF x.Forward /\ x.Backward THEN 1
             ELSE IF ~x.Forward /\ x.Backward THEN 2 ELSE 0
        b == IF y.Forward /\ y.Backward THEN 1
             ELSE IF ~y.Forward /\ y.Backward THEN 2 ELSE 0
    IN  a < b

\* FastArc::operator<.
ArcLess(x, y) ==
    LET a == IF x.Forward /\ x.Backward THEN 1
             ELSE IF ~x.Forward /\ x.Backward THEN 2 ELSE 0
        b == IF y.Forward /\ y.Backward THEN 1
             ELSE IF ~y.Forward /\ y.Backward THEN 2 ELSE 0
    IN  IF a = b THEN x.OtherVertexId < y.OtherVertexId ELSE a < b

RECURSIVE InsertArc(_, _)
InsertArc(block, a) ==
    IF block = <<>> THEN <<a>>
    ELSE IF ArcLess(a, Head(block)) THEN <<a>> \o block
    ELSE <<Head(block)>> \o InsertArc(Tail(block), a)

\* sort(arcs + vertices[u].FirstArcId(), arcs + vertices[u + 1].FirstArcId()).
RECURSIVE SortArcs(_)
SortArcs(block) ==
    IF block = <<>> THEN <<>>
    ELSE InsertArc(SortArcs(Tail(block)), Head(block))

\* The scatter pass of ReadFromArcList: the arcs written to vertex u's block,
\* in the order of the input.
RECURSIVE ScatterArcs(_, _, _, _)
ScatterArcs(inArcs, u, isDirected, buildIncomingArcs) ==
    IF inArcs = <<>> THEN <<>>
    ELSE LET from == Head(inArcs)[1]
             to == Head(inArcs)[2]
             out == IF from = u
                    THEN <<FastArc(to, TRUE, ~isDirected /\ buildIncomingArcs)>>
                    ELSE <<>>
             in == IF to = u /\ (buildIncomingArcs \/ ~isDirected)
                   THEN <<FastArc(from, ~isDirected, buildIncomingArcs)>>
                   ELSE <<>>
         IN  out \o in \o ScatterArcs(Tail(inArcs), u, isDirected, buildIncomingArcs)

ReadFromArcList(numVertices, inArcs, isDirected, buildIncomingArcs) ==
    [NumVertices |-> numVertices,
     IsDirected |-> isDirected,
     arcs |-> [u \in 0 .. numVertices - 1 |->
                 LET block == ScatterArcs(inArcs, u, isDirected, buildIncomingArcs)
                 IN  IF buildIncomingArcs /\ isDirected THEN SortArcs(block)
                     ELSE block]]

\* FORALL_INCIDENT_ARCS(graph, u, a) { if (!a->Forward()) break; ... }: the
\* arcs of u's block, first to last, up to the first one without the flag.
RECURSIVE ForwardScan(_)
ForwardScan(block) ==
    IF block = <<>> \/ ~Head(block).Forward THEN <<>>
    ELSE <<Head(block)>> \o ForwardScan(Tail(block))

\* FORALL_INCIDENT_ARCS_BACKWARD(graph, u, a) { if (!a->Backward()) break; ... }:
\* the arcs of u's block, last to first, up to the first one without the flag.
RECURSIVE BackwardScan(_)
BackwardScan(block) ==
    IF block = <<>> \/ ~block[Len(block)].Backward THEN <<>>
    ELSE <<block[Len(block)]>> \o BackwardScan(SubSeq(block, 1, Len(block) - 1))

\* The constructors' in-degree pass: ++indeg[arc->OtherVertexId()] for every
\* arc with the forward flag.
RECURSIVE CountForwardTo(_, _)
CountForwardTo(block, v) ==
    IF block = <<>> THEN 0
    ELSE (IF Head(block).Forward /\ Head(block).OtherVertexId = v THEN 1 ELSE 0)
         + CountForwardTo(Tail(block), v)

RECURSIVE SumOver(_, _, _)
SumOver(g, v, u) ==
    IF u = g.NumVertices THEN 0
    ELSE CountForwardTo(g.arcs[u], v) + SumOver(g, v, u + 1)

ComputeInDegrees(g) == [v \in 0 .. g.NumVertices - 1 |-> SumOver(g, v, 0)]

(***************************************************************************)
(* FastSet: the BFS search space.                                          *)
(***************************************************************************)
FastSetNew(numElements) ==
    [isContained |-> [x \in 0 .. numElements - 1 |-> FALSE],
     containedKeys |-> <<>>]

FastSetSize(S) == Len(S.containedKeys)

FastSetKeyByIndex(S, index) == At(S.containedKeys, index)

FastSetIsContained(S, key) == S.isContained[key]

\* An insertion that appends the key whether or not it is contained.
FastSetInsertAlways(S, key) ==
    [isContained |-> [S.isContained EXCEPT ![key] = TRUE],
     containedKeys |-> Append(S.containedKeys, key)]

FastSetInsert(S, key) ==
    [isContained |-> [S.isContained EXCEPT ![key] = TRUE],
     containedKeys |-> IF ~S.isContained[key]
                       THEN Append(S.containedKeys, key)
                       ELSE S.containedKeys]

FastSetClear(S) ==
    [isContained |-> [x \in DOMAIN S.isContained |->
                        IF x \in Range(S.containedKeys) THEN FALSE
                        ELSE S.isContained[x]],
     containedKeys |-> <<>>]

(***************************************************************************)
(* Contained<modelType>(u, v, i, l): whether the arc u -> v is in instance *)
(* i.  randomSeed, indeg and binprob are fields of the object.             *)
(***************************************************************************)
ModelTypes == {"WEIGHTED", "BINARY", "TRIVALENCY"}

\* SKIM::Contained.
SkimContained(modelType, randomSeed, indeg, binprob, u, v, i, l) ==
    LET h == Murmur3Hash(randomSeed, u, v, i, l)
    IN  CASE modelType = "WEIGHTED" ->
               Mod32(h, resolution) < Min(resolution, resolution \div indeg[v])
          [] modelType = "BINARY" ->
               Mod32(h, resolution) < binprob
          [] modelType = "TRIVALENCY" ->
               Mod32(h, resolution) < At(triprob, Mod32(h, Len(triprob)))

\* FastRSInfluenceOracle::Contained.  The TRIVALENCY threshold is triprob[i]:
\* for i >= triprob.size() the array is read out of bounds, and oobRead is
\* the value that read returns.
OracleContained(modelType, randomSeed, indeg, binprob, u, v, i, l, oobRead) ==
    LET h == Murmur3Hash(randomSeed, u, v, i, l)
    IN  CASE modelType = "WEIGHTED" ->
               Mod32(h, resolution) < Min(resolution, resolution \div indeg[v])
          [] modelType = "BINARY" ->
               Mod32(h, resolution) < binprob
          [] modelType = "TRIVALENCY" ->
               Mod32(h, resolution) < (IF i < Len(triprob) THEN At(triprob, i)
                                       ELSE oobRead)

\* The arcs a -> b of the graph, read off the backward flags: b's block
\* holds a with the backward flag.
LogicalArcs(g) ==
    UNION {{<<a.OtherVertexId, b>> : a \in Range(BackwardScan(g.arcs[b]))} :
             b \in 0 .. g.NumVertices - 1}

\* Contained is a pure function of its arguments and of fields that never
\* change after construction; its values for the arcs of the graph are
\* tabulated once per run: <<a, b>> \in table[i] iff Contained(a, b, i, l).
OracleInstances(modelType, randomSeed, indeg, binprob, g, l, oobRead) ==
    [i \in 0 .. l - 1 |->
       {e \in LogicalArcs(g) :
          OracleContained(modelType, randomSeed, indeg, binprob, e[1], e[2], i, l, oobRead)}]

SkimInstances(modelType, randomSeed, indeg, binprob, g, l) ==
    [i \in 0 .. l - 1 |->
       {e \in LogicalArcs(g) :
          SkimContained(modelType, randomSeed, indeg, binprob, e[1], e[2], i, l)}]

(***************************************************************************)
(* FastRSInfluenceOracle::RunPreprocessing.                                *)
(***************************************************************************)
\* GenerateRandomPermutation: the identity on 0 .. numElements - 1 shuffled
\* by a generator seeded with the random seed; the shuffle can produce any
\* permutation.
GenerateRandomPermutation(numElements) == Permutations(0 .. numElements - 1)

\* The grouping loop: the pairs (r, u) of instance i, by ascending r.
RECURSIVE GroupRanks(_, _, _, _, _)
GroupRanks(perm, n, i, r, size) ==
    IF r = size THEN <<>>
    ELSE (IF perm[r] \div n = i THEN <<<<r, perm[r] % n>>>> ELSE <<>>)
         \o GroupRanks(perm, n, i, r + 1, size)

\* A pruning test that is off by one: it prunes one entry early.
PrePrunedEarly(Y, k) == Len(Y) >= k - 1

\* A pruning test that never prunes.
PrePrunedNever(Y, k) == Len(Y) < 0

\* The pruning test at a scanned vertex whose local sketch is Y.
PrePruned(Y, k) == Len(Y) >= k

\* The arc expansion at u: the backward scan inserts every v with
\* Contained(v, u, i, l) that is not in the search space yet.
RECURSIVE PreExpand(_, _, _, _)
PreExpand(S, scan, u, inst) ==
    IF scan = <<>> THEN S
    ELSE LET v == Head(scan).OtherVertexId
         IN  PreExpand(IF <<v, u>> \in inst /\ ~FastSetIsContained(S, v)
                       THEN FastSetInsert(S, v) ELSE S,
                       Tail(scan), u, inst)

\* The BFS loop from position ind of the search space: the search space and
\* the local sketches it ends with.
RECURSIVE PreBFSLoop(_, _, _, _, _, _, _)
PreBFSLoop(g, inst, k, S, ind, local, rank) ==
    IF ind >= FastSetSize(S) THEN [S |-> S, localSketches |-> local]
    ELSE LET u == FastSetKeyByIndex(S, ind)
             Y == local[u]
         IN  IF PrePruned(Y, k)
             THEN PreBFSLoop(g, inst, k, S, ind + 1, local, rank)
             ELSE PreBFSLoop(g, inst, k,
                             PreExpand(S, BackwardScan(g.arcs[u]), u, inst),
                             ind + 1,
                             [local EXCEPT ![u] = Append(Y, rank)],
                             rank)

\* One iteration of the j loop: the BFS from sourceVertexId.
PreBFS(g, inst, k, S, local, rank, sourceVertexId) ==
    PreBFSLoop(g, inst, k, FastSetInsert(FastSetClear(S), sourceVertexId), 0, local, rank)

\* std::set_union of two sorted ranges.
RECURSIVE SetUnion(_, _)
SetUnion(X, Y) ==
    IF X = <<>> THEN Y
    ELSE IF Y = <<>> THEN X
    ELSE IF Head(X) < Head(Y) THEN <<Head(X)>> \o SetUnion(Tail(X), Y)
    ELSE IF Head(Y) < Head(X) THEN <<Head(Y)>> \o SetUnion(X, Tail(Y))
    ELSE <<Head(X)>> \o SetUnion(Tail(X), Tail(Y))

Resize(Z, size) == IF Len(Z) > size THEN SubSeq(Z, 1, size) ELSE Z

\* A merge that forgets the trim.
MergeSketchNoTrim(X, Y, k) == SetUnion(X, Y)

\* The merge of the local sketch Y into the global sketch X, trimmed to k.
MergeSketch(X, Y, k) == Resize(SetUnion(X, Y), k)

RECURSIVE SumLen(_, _, _)
SumLen(f, u, n) == IF u = n THEN 0 ELSE Len(f[u]) + SumLen(f, u + 1, n)

(***************************************************************************)
(* FastRSInfluenceOracle::Estimator.  Ranks and taus are pairs <<rank,     *)
(* tau>>; the estimate is the exact rational <<numerator, denominator>>.   *)
(* Assert(c) is modelled as recording c in a set when c is false and going *)
(* on, which is what a build without assertions executes.                  *)
(***************************************************************************)
RECURSIVE GCD(_, _)
GCD(a, b) == IF b = 0 THEN a ELSE GCD(b, a % b)

Rat(num, den) == LET g == GCD(num, den) IN IF g = 0 THEN <<num, den>> ELSE <<num \div g, den \div g>>

RatAdd(x, y) == Rat((x[1] * y[2]) + (y[1] * x[2]), x[2] * y[2])

\* A count that forgets to leave out the threshold entry of a full sketch.
EstNumAll(sketch, k) == Len(sketch)

\* The number of entries a seed with this sketch contributes.
EstNum(sketch, k) == IF Len(sketch) = k THEN Len(sketch) - 1 ELSE Len(sketch)

\* The threshold of a seed with this sketch.
EstTau(sketch, k, n, l) == IF Len(sketch) = k THEN sketch[Len(sketch)] ELSE n * l

\* The collection loop over the seeds from position p on.
RECURSIVE EstCollect(_, _, _, _, _, _, _, _)
EstCollect(sk, S, p, k, n, l, Z, I) ==
    IF p > Len(S) THEN [sourceZ |-> Z, sourceI |-> Append(I, Len(Z))]
    ELSE LET sketch == sk[S[p]]
             num == EstNum(sketch, k)
             tau == EstTau(sketch, k, n, l)
             entries == [x \in 1 .. num |-> <<sketch[x], tau>>]
         IN  EstCollect(sk, S, p + 1, k, n, l,
                        Z \o entries \o <<<<n * l, 0>>>>, Append(I, Len(Z)))

\* A tie-break that keeps the entry with the smaller tau.
KeepFirstSmaller(a, b) == a[2] < b[2]

\* A tie-break that keeps the entry of the first chunk whenever it has a tau.
KeepFirstWhenPresent(a, b) == a[2] > 0

\* On equal ranks, whether the entry of the first chunk is the one kept.
KeepFirst(a, b) == a[2] > b[2]

\* The inner loop merging chunk [first1, last1) with chunk [first2, last2)
\* of Z onto dest.  pastEnd records a dereference of first1 or first2 at or
\* beyond the end of its chunk.
RECURSIVE MergeChunks(_, _, _, _, _, _, _)
MergeChunks(Z, first1, last1, first2, last2, sentinelRank, dest) ==
    IF first1 >= last1 \/ first2 >= last2
    THEN [destZ |-> dest, pastEnd |-> TRUE]
    ELSE LET a == At(Z, first1)
             b == At(Z, first2)
         IN  IF a[1] < b[1]
             THEN MergeChunks(Z, first1 + 1, last1, first2, last2, sentinelRank, Append(dest, a))
             ELSE IF b[1] < a[1]
             THEN MergeChunks(Z, first1, last1, first2 + 1, last2, sentinelRank, Append(dest, b))
             ELSE IF KeepFirst(a, b)
             THEN MergeChunks(Z, first1 + 1, last1, first2 + 1, last2, sentinelRank, Append(dest, a))
             ELSE IF a[1] = sentinelRank
             THEN [destZ |-> Append(dest, b), pastEnd |-> FALSE]
             ELSE MergeChunks(Z, first1 + 1, last1, first2 + 1, last2, sentinelRank, Append(dest, b))

\* One pass of the for loop over the chunks i, i + 2, ... of a merge level.
RECURSIVE MergeLevel(_, _, _, _, _, _, _, _, _)
MergeLevel(Z, I, i, num, sentinelRank, destZ, destI, failed, pastEnd) ==
    IF i >= num
    THEN [sourceZ |-> destZ, sourceI |-> Append(destI, Len(destZ)),
          failed |-> failed, pastEnd |-> pastEnd]
    ELSE IF i + 1 = num
    THEN MergeLevel(Z, I, i + 2, num, sentinelRank,
                    destZ \o SubSeq(Z, At(I, i) + 1, At(I, i + 1)),
                    Append(destI, Len(destZ)), failed, pastEnd)
    ELSE LET m == MergeChunks(Z, At(I, i), At(I, i + 1), At(I, i + 1), At(I, i + 2),
                              sentinelRank, destZ)
         IN  MergeLevel(Z, I, i + 2, num, sentinelRank, m.destZ,
                        Append(destI, Len(destZ)),
                        failed \cup (IF i + 2 < num THEN {} ELSE {"(i + 2) < num"}),
                        pastEnd \/ m.pastEnd)

\* The while loop: merge levels until one chunk is left.
RECURSIVE MergeAll(_, _, _, _, _)
MergeAll(Z, I, sentinelRank, failed, pastEnd) ==
    IF Len(I) > 2
    THEN LET m == MergeLevel(Z, I, 0, Len(I) - 1, sentinelRank, <<>>, <<>>, failed, pastEnd)
         IN  MergeAll(m.sourceZ, m.sourceI, sentinelRank, m.failed, m.pastEnd)
    ELSE [sourceZ |-> Z, sourceI |-> I, failed |-> failed, pastEnd |-> pastEnd]

\* The accumulation loop: the sum of 1 / tau over the entries of Z.
RECURSIVE SumInverseTau(_)
SumInverseTau(Z) ==
    IF Z = <<>> THEN <<0, 1>>
    ELSE RatAdd(<<1, Head(Z)[2]>>, SumInverseTau(Tail(Z)))

\* What a call Estimator(S, k, l) can end with.  merged is the list held
\* after the merges; popEmpty records pop_back() on an empty vector, whose
\* outcome is undefined: the call may crash, or return with an empty list.
Estimator(sk, S, k, n, l) ==
    LET c == EstCollect(sk, S, 1, k, n, l, <<>>, <<>>)
        failed0 == IF Len(c.sourceI) >= 2 THEN {} ELSE {"sourceI.size() >= 2"}
        m == MergeAll(c.sourceZ, c.sourceI, n * l, failed0, FALSE)
        failed1 == m.failed \cup (IF m.sourceZ # <<>> THEN {} ELSE {"!sourceZ.empty()"})
        popEmpty == m.sourceZ = <<>>
        Z == IF popEmpty THEN <<>> ELSE SubSeq(m.sourceZ, 1, Len(m.sourceZ) - 1)
        sum == SumInverseTau(Z)
    IN  {[called |-> TRUE, S |-> S, collected |-> c.sourceZ, merged |-> m.sourceZ,
          failed |-> failed1, pastEnd |-> m.pastEnd, popEmpty |-> popEmpty,
          crashed |-> crash, estimate |-> Rat(sum[1] * n, sum[2])] :
           crash \in IF popEmpty THEN BOOLEAN ELSE {FALSE}}

(***************************************************************************)
(* Inputs.  A scenario is a graph file, the command line's model, seed and *)
(* number of instances l, and the sketch sizes k it is run with.           *)
(***************************************************************************)
MaxK == 3
MaxSeeds == 3

Complete3 == <<<<0, 1>>, <<0, 2>>, <<1, 0>>, <<1, 2>>, <<2, 0>>, <<2, 1>>>>
Cycle3Chord == <<<<0, 1>>, <<1, 2>>, <<0, 2>>, <<2, 0>>>>
Path3 == <<<<0, 1>>, <<1, 2>>>>
Pair2 == <<<<0, 1>>, <<1, 0>>>>
Line5 == <<<<0, 1>>, <<1, 2>>, <<2, 3>>, <<3, 4>>>>
Ring4 == <<<<0, 1>>, <<1, 2>>, <<2, 3>>, <<3, 0>>, <<0, 2>>>>

Scenario(n, inArcs, undir, model, num, den, seed, ll, ks) ==
    [n |-> n, inArcs |-> inArcs, undir |-> undir, model |-> model,
     num |-> num, den |-> den, seed |-> seed, l |-> ll, ks |-> ks]

\* The tiny line graph: BINARY with p = 1.0, l = 1, k = 4.
LineGraphScenario == Scenario(5, Line5, FALSE, "BINARY", 1, 1, 7, 1, {4})

PreScenarios ==
    {Scenario(3, Complete3, FALSE, "BINARY", 1, 2, 3, 2, 1 .. MaxK),
     Scenario(3, Cycle3Chord, FALSE, "WEIGHTED", 1, 10, 3, 2, 1 .. MaxK),
     Scenario(3, Path3, TRUE, "BINARY", 1, 2, 2, 2, 1 .. MaxK),
     Scenario(2, Pair2, FALSE, "TRIVALENCY", 1, 10, 35, 3, 1 .. MaxK),
     LineGraphScenario}

EstScenarios ==
    {Scenario(3, Complete3, FALSE, "BINARY", 1, 2, 3, 2, {2, MaxK}),
     Scenario(4, Ring4, FALSE, "BINARY", 1, 2, 3, 1, 1 .. MaxK),
     Scenario(2, Pair2, FALSE, "WEIGHTED", 1, 10, 3, 2, 1 .. MaxK),
     Scenario(2, Pair2, TRUE, "BINARY", 1, 2, 5, 2, 1 .. MaxK),
     LineGraphScenario}

\* The seed sets a query is run with: vectors of at most MaxSeeds vertices.
SeedSets(n) == UNION {[1 .. m -> 0 .. n - 1] : m \in 0 .. MaxSeeds}

\* What an out-of-bounds read of triprob can yield.
OobValues == {0, resolution}

VARIABLES
    graph, indeg, randomSeed, modelType, binprob,
    k, l,
    oobRead, instances,
    permutation, instanceRanks, instI, srcJ, searchSpace, localSketches,
    sketches, sketchSize, opc,
    est,
    skim, ref,
    call

inputVars == <<graph, indeg, randomSeed, modelType, binprob, k, l, oobRead, instances>>
oracleVars == <<permutation, instanceRanks, instI, srcJ, searchSpace, localSketches,
                sketches, sketchSize, opc>>
vars == <<inputVars, oracleVars, est, skim, ref, call>>

n == graph.NumVertices
Vertices == 0 .. n - 1

NoEstimate == [called |-> FALSE]
NoRun == [pc |-> "none"]
NoCall == [made |-> FALSE]

\* The constructor, followed by SetBinaryProbability, on the scenario's graph
\* (the graphs are read with incoming arcs, directed unless -undir).
Construct(sc) ==
    /\ graph = ReadFromArcList(sc.n, sc.inArcs, ~sc.undir, TRUE)
    /\ indeg = ComputeInDegrees(graph)
    /\ randomSeed = sc.seed
    /\ modelType = sc.model
    /\ binprob = SetBinaryProbability(sc.num, sc.den)
    /\ l = sc.l

\* The oracle after construction: no sketches yet.
OracleConstructed ==
    /\ permutation = <<>>
    /\ instanceRanks = <<>>
    /\ instI = 0
    /\ srcJ = 0
    /\ searchSpace = FastSetNew(n)
    /\ localSketches = [v \in Vertices |-> <<>>]
    /\ sketches = [v \in Vertices |-> <<>>]
    /\ sketchSize = 0
    /\ opc = "constructed"
    /\ est = NoEstimate

InitOracle(scenarios) ==
    \E sc \in scenarios :
        /\ Construct(sc)
        /\ oobRead \in IF sc.model = "TRIVALENCY" /\ sc.l > Len(triprob)
                       THEN OobValues ELSE {0}
        /\ instances = OracleInstances(modelType, randomSeed, indeg, binprob, graph, l, oobRead)
        /\ OracleConstructed
        /\ k \in sc.ks
        /\ skim = NoRun
        /\ ref = NoRun
        /\ call = NoCall

\* RunPreprocessing up to the first BFS: allocation, the random permutation
\* and the grouping of the ranks by instance.
RunPreprocessingBegin ==
    /\ opc = "constructed"
    /\ \E perm \in GenerateRandomPermutation(n * l) :
           /\ permutation' = perm
           /\ instanceRanks' = [i \in 0 .. l - 1 |-> GroupRanks(perm, n, i, 0, n * l)]
    /\ instI' = 0
    /\ srcJ' = 0
    /\ opc' = "bfs"
    /\ UNCHANGED <<inputVars, searchSpace, localSketches, sketches, sketchSize,
                   est, skim, ref, call>>

\* One iteration of the j loop: the BFS from the j-th source of instance i.
PreprocessingBFS ==
    /\ opc = "bfs"
    /\ LET pair == At(instanceRanks[instI], srcJ)
           r == PreBFS(graph, instances[instI], k, searchSpace, localSketches,
                       pair[1], pair[2])
       IN  /\ searchSpace' = r.S
           /\ localSketches' = r.localSketches
    /\ srcJ' = srcJ + 1
    /\ opc' = IF srcJ + 1 = n THEN "merge" ELSE "bfs"
    /\ UNCHANGED <<inputVars, permutation, instanceRanks, instI, sketches, sketchSize,
                   est, skim, ref, call>>

\* The merge of instance i's local sketches into the global ones.
PreprocessingMerge ==
    /\ opc = "merge"
    /\ sketches' = [u \in Vertices |-> MergeSketch(sketches[u], localSketches[u], k)]
    /\ sketchSize' = SumLen(sketches', 0, n)
    /\ localSketches' = [u \in Vertices |-> <<>>]
    /\ instI' = instI + 1
    /\ srcJ' = 0
    /\ opc' = IF instI + 1 = l THEN "done" ELSE "bfs"
    /\ UNCHANGED <<inputVars, permutation, instanceRanks, searchSpace,
                   est, skim, ref, call>>

\* RunSpecificQuery(S, k, l): one call of the Estimator.
RunSpecificQuery ==
    /\ opc = "done"
    /\ ~est.called
    /\ \E S \in SeedSets(n) : est' \in Estimator(sketches, S, k, n, l)
    /\ UNCHANGED <<inputVars, oracleVars, skim, ref, call>>

InitPre == InitOracle(PreScenarios)
NextPre == RunPreprocessingBegin \/ PreprocessingBFS \/ PreprocessingMerge
SpecPre == InitPre /\ [][NextPre]_vars

InitEst == InitOracle(EstScenarios)
NextEst == RunPreprocessingBegin \/ PreprocessingBFS \/ PreprocessingMerge \/ RunSpecificQuery
SpecEst == InitEst /\ [][NextEst]_vars

(***************************************************************************)
(* Properties of RunPreprocessing.                                         *)
(***************************************************************************)
RECURSIVE SortSet(_)
SortSet(ranks) ==
    IF ranks = {} THEN <<>>
    ELSE LET m == CHOOSE x \in ranks : \A y \in ranks : x <= y
         IN  <<m>> \o SortSet(ranks \ {m})

StrictlyAscending(X) == \A a, b \in DOMAIN X : a < b => X[a] < X[b]

\* The vertices with a path of contained arcs to a vertex of reached.
RECURSIVE ReverseReach(_, _)
ReverseReach(inst, reached) ==
    LET next == reached \cup {e[1] : e \in {x \in inst : x[2] \in reached}}
    IN  IF next = reached THEN reached ELSE ReverseReach(inst, next)

\* The pair (s, i) the permutation assigns rank r to.
RankInstance(r) == permutation[r] \div n
RankSource(r) == permutation[r] % n

\* The ranks of the instances in insts whose reverse search reaches v.
ReachingRanks(v, insts) ==
    {r \in 0 .. (n * l) - 1 :
        /\ RankInstance(r) \in insts
        /\ v \in ReverseReach(instances[RankInstance(r)], {RankSource(r)})}

BottomK(ranks) == SubSeq(SortSet(ranks), 1, Min(k, Cardinality(ranks)))

\* C1: the sketch of every vertex v is the k smallest ranks whose pair's
\* reverse search reaches v: over the instances merged so far in every state
\* of the run, hence over all l instances at its end; and when an instance's
\* searches are done, its local sketch of v is the k smallest of that
\* instance's ranks reaching v, so pruning dropped none of them.
C1_SketchesAreBottomK ==
    opc \in {"bfs", "merge", "done"} =>
        /\ \A v \in Vertices : sketches[v] = BottomK(ReachingRanks(v, 0 .. instI - 1))
        /\ opc = "merge" =>
              \A v \in Vertices : localSketches[v] = BottomK(ReachingRanks(v, {instI}))

\* A finished run in which some vertex was reached by more than k ranks of
\* one instance, so that searches were pruned at it.
C1_PrunedRunDone ==
    /\ opc = "done"
    /\ \E v \in Vertices : \E i \in 0 .. l - 1 : Cardinality(ReachingRanks(v, {i})) > k

\* C2: every global sketch is strictly ascending and holds at most k ranks,
\* and every local sketch is strictly ascending, in every state of the run,
\* in particular after each merge and when a local sketch enters the merge.
C2_SketchesAscendingAtMostK ==
    \A v \in Vertices :
        /\ StrictlyAscending(sketches[v])
        /\ Len(sketches[v]) <= k
        /\ StrictlyAscending(localSketches[v])

\* A finished run with a full sketch of at least two ranks that come from
\* different instances, with more ranks reaching the vertex than were kept.
C2_MergedAndTrimmed ==
    /\ opc = "done"
    /\ k >= 2
    /\ \E v \in Vertices :
          /\ Len(sketches[v]) = k
          /\ Cardinality(ReachingRanks(v, 0 .. l - 1)) > k
          /\ \E a, b \in Range(sketches[v]) : RankInstance(a) # RankInstance(b)

(***************************************************************************)
(* Properties of the Estimator.                                            *)
(***************************************************************************)
\* The per-seed list Z_s: the ranks of the sketch below its threshold, each
\* with the threshold tau of the seed.
SeedList(s) ==
    LET X == sketches[s]
        full == Len(X) = k
    IN  {<<X[x], IF full THEN X[Len(X)] ELSE n * l>> :
           x \in 1 .. (IF full THEN Len(X) - 1 ELSE Len(X))}

QueryEntries(S) == UNION {SeedList(S[p]) : p \in DOMAIN S}

LargestTau(S, rank) ==
    LET taus == {e[2] : e \in {x \in QueryEntries(S) : x[1] = rank}}
    IN  CHOOSE t \in taus : \A u \in taus : u <= t

\* One entry per distinct rank, ascending, with the largest tau, and then
\* the sentinel.
ExpectedMerged(S) ==
    LET ranks == SortSet({e[1] : e \in QueryEntries(S)})
    IN  [x \in 1 .. Len(ranks) |-> <<ranks[x], LargestTau(S, ranks[x])>>]
        \o <<<<n * l, 0>>>>

\* C5: for a non-empty seed set, the list held after the pairwise merges has
\* exactly one entry per distinct rank of the per-seed lists, in strictly
\* ascending order, each with the largest tau of that rank, followed by
\* exactly one sentinel (n*l, 0); and no merge step read at or beyond the end
\* of a chunk.
C5_MergedListCoalesced ==
    (est.called /\ est.S # <<>>) =>
        /\ est.merged = ExpectedMerged(est.S)
        /\ ~est.pastEnd

\* A query of three seeds (two merge levels, one chunk copied) in which a
\* rank occurs in two per-seed lists with different taus.
C5_ThreeSeedsSharedRank ==
    /\ est.called
    /\ Len(est.S) = 3
    /\ \E a, b \in QueryEntries(est.S) : a[1] = b[1] /\ a[2] # b[2]

\* The tiny line graph run: 5 vertices, 0->1->2->3->4, BINARY with p = 1.0,
\* l = 1, k = 4.
IsLineGraphRun ==
    /\ n = 5
    /\ graph = ReadFromArcList(5, Line5, TRUE, TRUE)
    /\ modelType = "BINARY"
    /\ binprob = resolution
    /\ l = 1
    /\ k = 4

\* C6: for a single seed s the estimate is n*(k-1)/tau_s when the sketch of
\* s is full and |X[s]|/l otherwise (stated without division); and in the
\* line graph run the sketch of vertex 0 is <<0, 1, 2, 3>> whatever the
\* permutation, and the estimate of {0} is exactly 5.
C6_SingleSeedEstimate ==
    /\ (est.called /\ Len(est.S) = 1) =>
          LET X == sketches[est.S[1]]
          IN  IF Len(X) = k
              THEN est.estimate[1] * X[k] = (n * (k - 1)) * est.estimate[2]
              ELSE est.estimate[1] * l = Len(X) * est.estimate[2]
    /\ (IsLineGraphRun /\ opc = "done") =>
          /\ sketches[0] = <<0, 1, 2, 3>>
          /\ (est.called /\ est.S = <<0>>) => est.estimate = <<5, 1>>

\* The line graph run queried with the seed set {0}.
C6_LineGraphQueried ==
    /\ IsLineGraphRun
    /\ est.called
    /\ est.S = <<0>>
    /\ est.estimate = <<5, 1>>

\* C7: the Estimator called with an empty seed set returns 0, violates no
\* assertion and removes nothing from an empty container.
C7_EmptySeedSetReturnsZero ==
    (est.called /\ est.S = <<>>) =>
        /\ est.estimate = <<0, 1>>
        /\ ~est.crashed
        /\ est.failed = {}
        /\ ~est.popEmpty

(***************************************************************************)
(* The presence decisions taken at the call sites of Contained.  At each   *)
(* site u is the vertex being scanned and v the other endpoint of the arc. *)
(***************************************************************************)
MaxInstances == 4

ContainedScenarios ==
    {Scenario(3, Complete3, FALSE, model, 1, 2, seed, ll, {1}) :
        model \in ModelTypes, seed \in {3, 61}, ll \in 1 .. MaxInstances}
    \cup {Scenario(3, Cycle3Chord, FALSE, "WEIGHTED", 1, 10, 3, ll, {1}) :
             ll \in 1 .. MaxInstances}

\* A grow-phase decision taken with the arguments in the scan's own order.
SkimGrowDecisionSwapped(u, v, i) ==
    SkimContained(modelType, randomSeed, indeg, binprob, u, v, i, l)

\* SKIM::Run, grow phase: the backward scan at u asks Contained(v, u, i, l).
SkimGrowDecision(u, v, i) ==
    SkimContained(modelType, randomSeed, indeg, binprob, v, u, i, l)

\* SKIM::Run, evaluation: the forward scan at u asks Contained(u, v, i, l).
SkimEvalDecision(u, v, i) ==
    SkimContained(modelType, randomSeed, indeg, binprob, u, v, i, l)

\* SKIM::ComputeExactInfluence(seedSet, lEval): the forward scan at u asks
\* Contained(u, v, i, lEval).
SkimExactDecision(u, v, i, lEval) ==
    SkimContained(modelType, randomSeed, indeg, binprob, u, v, i, lEval)

\* RunPreprocessing(k, l): the backward scan at u asks Contained(v, u, i, l).
OraclePreDecision(u, v, i, oob) ==
    OracleContained(modelType, randomSeed, indeg, binprob, v, u, i, l, oob)

\* ComputeInfluence(S, lEval): the forward scan at u asks
\* Contained(u, v, i, lEval).
OracleInfluenceDecision(u, v, i, lEval, oob) ==
    OracleContained(modelType, randomSeed, indeg, binprob, u, v, i, lEval, oob)

InitContained ==
    \E sc \in ContainedScenarios :
        /\ Construct(sc)
        /\ oobRead \in IF sc.model = "TRIVALENCY" /\ sc.l > Len(triprob)
                       THEN OobValues ELSE {0}
        /\ instances = <<>>
        /\ OracleConstructed
        /\ k \in sc.ks
        /\ skim = NoRun
        /\ ref = NoRun
        /\ call = NoCall

\* The decisions about the arc a -> b in an instance i that both the build
\* (instances 0 .. l - 1) and an evaluation on lEval instances consult.  The
\* two out-of-bounds reads of the oracle are separate reads.
Consult ==
    /\ ~call.made
    /\ \E e \in LogicalArcs(graph), i \in 0 .. l - 1, lEval \in 1 .. MaxInstances :
          /\ i < lEval
          /\ \E oob \in IF modelType = "TRIVALENCY" /\ i >= Len(triprob)
                        THEN OobValues ELSE {0} :
                call' = [made |-> TRUE, a |-> e[1], b |-> e[2], i |-> i, lEval |-> lEval,
                         skimGrow |-> SkimGrowDecision(e[2], e[1], i),
                         skimEval |-> SkimEvalDecision(e[1], e[2], i),
                         skimExact |-> SkimExactDecision(e[1], e[2], i, lEval),
                         oraclePre |-> OraclePreDecision(e[2], e[1], i, oobRead),
                         oracleInfluence |->
                             OracleInfluenceDecision(e[1], e[2], i, lEval, oob)]
    /\ UNCHANGED <<inputVars, oracleVars, est, skim, ref>>

NextContained == Consult
SpecContained == InitContained /\ [][NextContained]_vars

NullVertex == 0 - 1

Uint16 == Pow2(16)

NewSeed == [VertexId |-> NullVertex, EstimatedInfluence |-> <<0, 1>>]

\* The locals of Run(N, k, l, lEval, numt) when the greedy loop is entered.
RunBegin(N, numt) ==
    [N |-> IF N = 0 THEN n ELSE N,
     numt |-> numt,
     pc |-> "grow",
     seedSet |-> <<>>,
     permutation |-> <<>>,
     invSketches |-> <<>>,
     sketchSizes |-> [v \in Vertices |-> 0],
     covered |-> [i \in 0 .. l - 1 |-> [v \in Vertices |-> FALSE]],
     processed |-> [i \in 0 .. l - 1 |-> [v \in Vertices |-> FALSE]],
     searchSpaces |-> [t \in 0 .. numt - 1 |-> FastSetNew(n)],
     updateQueues |-> [t \in 0 .. numt - 1 |-> <<>>],
     buck |-> <<>>,
     buckind |-> <<>>,
     buckp |-> 0,
     rank |-> 0,
     numperm |-> 0,
     saturated |-> FALSE,
     exinfloc |-> 0,
     partial |-> [t \in 0 .. numt - 1 |-> 0],
     nextInst |-> 0,
     newSeed |-> NewSeed,
     oob |-> FALSE,
     numSaturatedSeeds |-> 0]

permthresh == l - ((l \div 10) + 1)

\* The else branch of the instance selection: the i-th unprocessed instance
\* of the source, scanning j upwards; i itself if the scan runs out.
RECURSIVE EnumerateInstance(_, _, _, _)
EnumerateInstance(i, j, processed, sourceVertexId) ==
    IF j = l THEN i
    ELSE IF ~processed[j][sourceVertexId]
         THEN IF i = 0 THEN j
              ELSE EnumerateInstance(i - 1, j + 1, processed, sourceVertexId)
         ELSE EnumerateInstance(i, j + 1, processed, sourceVertexId)

\* A selection whose first branch takes the drawn instance as it comes.
SelectInstanceNoRejection(numperm, processed, sourceVertexId, draw) ==
    IF numperm < permthresh
    THEN {draw}
    ELSE {EnumerateInstance(draw % ((l - numperm) + 1), 0, processed, sourceVertexId)}

\* The instances the selection can end with when distr(rnd) last returned
\* draw: the rejection loop ends only on an unprocessed instance.
SelectInstance(numperm, processed, sourceVertexId, draw) ==
    IF numperm < permthresh
    THEN IF ~processed[draw][sourceVertexId] THEN {draw} ELSE {}
    ELSE {EnumerateInstance(draw % ((l - numperm) + 1), 0, processed, sourceVertexId)}

\* A stop test that lets the sketch grow past k.
SeedFoundLate(size, kk) == size > kk

\* The stop test of the grow phase.
SeedFound(size, kk) == size = kk

\* The arc expansion of the grow phase at u.
RECURSIVE GrowExpand(_, _, _, _, _)
GrowExpand(S, scan, u, inst, cov) ==
    IF scan = <<>> THEN S
    ELSE LET v == Head(scan).OtherVertexId
         IN  GrowExpand(IF <<v, u>> \in inst /\ ~cov[v] /\ ~FastSetIsContained(S, v)
                        THEN FastSetInsert(S, v) ELSE S,
                        Tail(scan), u, inst, cov)

\* The BFS of the grow phase from position ind of the search space.
RECURSIVE GrowBFS(_, _, _, _, _, _)
GrowBFS(S, ind, sizes, invSketch, inst, cov) ==
    IF ind >= FastSetSize(S)
    THEN [S |-> S, sketchSizes |-> sizes, invSketch |-> invSketch, found |-> NullVertex]
    ELSE LET u == FastSetKeyByIndex(S, ind)
             sizes1 == [sizes EXCEPT ![u] = (@ + 1) % Uint16]
             inv1 == Append(invSketch, u)
         IN  IF SeedFound(sizes1[u], k)
             THEN [S |-> S, sketchSizes |-> sizes1, invSketch |-> inv1, found |-> u]
             ELSE GrowBFS(GrowExpand(S, BackwardScan(graph.arcs[u]), u, inst, cov),
                          ind + 1, sizes1, inv1, inst, cov)

\* One iteration of the loop while (rank < nl): perm is the outcome of the
\* shuffle if there is one, i the selected instance.
GrowRank(r, perm, i) ==
    LET vi == r.rank % n
        permutation1 == IF vi = 0 THEN perm ELSE r.permutation
        numperm1 == IF vi = 0 THEN r.numperm + 1 ELSE r.numperm
        sourceVertexId == permutation1[vi]
        key == <<sourceVertexId, i>>
        inv0 == IF key \in DOMAIN r.invSketches THEN r.invSketches
                ELSE (key :> <<>>) @@ r.invSketches
        r1 == [r EXCEPT !.permutation = permutation1,
                        !.numperm = numperm1,
                        !.processed[i][sourceVertexId] = TRUE,
                        !.rank = r.rank + 1,
                        !.invSketches = inv0]
        cov == r.covered[i]
        S0 == r.searchSpaces[0]
        b == GrowBFS(FastSetInsert(FastSetClear(S0), sourceVertexId), 0,
                     r.sketchSizes, inv0[key], instances[i], cov)
    IN  IF cov[sourceVertexId] THEN r1
        ELSE [r1 EXCEPT !.searchSpaces[0] = b.S,
                        !.sketchSizes = b.sketchSizes,
                        !.invSketches[key] = b.invSketch,
                        !.newSeed = IF b.found = NullVertex THEN NewSeed
                                    ELSE [VertexId |-> b.found,
                                          EstimatedInfluence |-> Rat((k - 1) * n, r.rank + 1)],
                        !.pc = IF b.found = NullVertex THEN "grow" ELSE "eval"]

\* The bucket build when the ranks are used up: the vertices in ascending
\* order, each into the bucket of its sketch size.
RECURSIVE FillBuckets(_, _)
FillBuckets(r, u) ==
    IF u = n THEN r
    ELSE LET size == r.sketchSizes[u]
         IN  IF size > 0
             THEN IF size \in DOMAIN r.buck
                  THEN FillBuckets([r EXCEPT !.buckind[u] = Len(r.buck[size]),
                                             !.buck[size] = Append(@, u),
                                             !.buckp = Max(@, size)],
                                   u + 1)
                  ELSE FillBuckets([r EXCEPT !.oob = TRUE], u + 1)
             ELSE FillBuckets(r, u + 1)

BuildBuckets(r) ==
    [FillBuckets([r EXCEPT !.buck = [j \in 0 .. k - 1 |-> <<>>],
                           !.buckind = [v \in Vertices |-> 0]], 0)
       EXCEPT !.saturated = TRUE, !.pc = "select"]

\* A lowering that gives up at the first empty bucket.
LowerBuckpGivesUp(buck, buckp) == IF buckp > 0 /\ buck[buckp] = <<>> THEN 0 ELSE buckp

\* while (buckp > 0 && buck[buckp].empty()) --buckp;
RECURSIVE LowerBuckp(_, _)
LowerBuckp(buck, buckp) ==
    IF buckp > 0 /\ buck[buckp] = <<>> THEN LowerBuckp(buck, buckp - 1) ELSE buckp

\* The selection in saturated mode: the last vertex of the highest bucket
\* that is not empty, or the end of the run when there is none.
SelectFromBuckets(r) ==
    LET buckp1 == LowerBuckp(r.buck, r.buckp)
        v == r.buck[buckp1][Len(r.buck[buckp1])]
    IN  IF buckp1 = 0 THEN [r EXCEPT !.buckp = 0, !.pc = "done"]
        ELSE [r EXCEPT !.buckp = buckp1,
                       !.newSeed = [VertexId |-> v,
                                    EstimatedInfluence |-> Rat(r.sketchSizes[v], l)],
                       !.numSaturatedSeeds = @ + 1,
                       !.pc = "eval"]

\* An admission test that forgets the covered bitmap.
EvalAdmitsCovered(S, cov, v) == ~FastSetIsContained(S, v)

\* Whether the evaluation BFS takes v into its search space.
EvalAdmits(S, cov, v) == ~FastSetIsContained(S, v) /\ ~cov[v]

\* An arc expansion that looks at the first arc of the scan only.
EvalExpandFirstArc(S, scan, u, inst, cov) ==
    IF scan = <<>> THEN S
    ELSE LET v == Head(scan).OtherVertexId
         IN  IF <<u, v>> \in inst /\ ~FastSetIsContained(S, v) /\ ~cov[v]
             THEN FastSetInsert(S, v) ELSE S

\* The arc expansion of the evaluation at u.
RECURSIVE EvalExpand(_, _, _, _, _)
EvalExpand(S, scan, u, inst, cov) ==
    IF scan = <<>> THEN S
    ELSE LET v == Head(scan).OtherVertexId
         IN  EvalExpand(IF <<u, v>> \in inst /\ EvalAdmits(S, cov, v)
                        THEN FastSetInsert(S, v) ELSE S,
                        Tail(scan), u, inst, cov)

\* An erase that leaves the index of the moved vertex as it was.
MovedIndexStale(buckind, last, v) == buckind

\* buckind[buck[s].back()] = buckind[v];
MovedIndex(buckind, last, v) == [buckind EXCEPT ![last] = buckind[v]]

\* The saturated update for one entry v of an inverse sketch: v leaves the
\* bucket of its sketch size and, if that size is above 1, enters the one
\* below; then the size is decremented.
DecrementInBuckets(r, v) ==
    LET s == r.sketchSizes[v]
        lower == (s + (Uint16 - 1)) % Uint16
    IN  IF s \notin DOMAIN r.buck \/ r.buck[s] = <<>>
        THEN [r EXCEPT !.oob = TRUE, !.sketchSizes[v] = lower]
        ELSE LET b == r.buck[s]
                 last == b[Len(b)]
                 buckind1 == MovedIndex(r.buckind, last, v)
                 pos == buckind1[v]
             IN  IF pos >= Len(b)
                 THEN [r EXCEPT !.oob = TRUE, !.sketchSizes[v] = lower]
                 ELSE LET swapped == [b EXCEPT ![pos + 1] = last, ![Len(b)] = b[pos + 1]]
                          buck1 == [r.buck EXCEPT ![s] = SubSeq(swapped, 1, Len(b) - 1)]
                      IN  IF s > 1
                          THEN [r EXCEPT !.buckind = [buckind1 EXCEPT ![v] = Len(buck1[s - 1])],
                                         !.buck = [buck1 EXCEPT ![s - 1] = Append(@, v)],
                                         !.sketchSizes[v] = lower]
                          ELSE [r EXCEPT !.buckind = buckind1,
                                         !.buck = buck1,
                                         !.sketchSizes[v] = lower]

\* An update loop that leaves the sketch sizes alone before saturation.
RECURSIVE UpdateCountersWhenSaturated(_, _)
UpdateCountersWhenSaturated(r, invSketch) ==
    IF invSketch = <<>> THEN r
    ELSE LET v == Head(invSketch)
         IN  UpdateCountersWhenSaturated(IF ~r.saturated THEN r
                                         ELSE DecrementInBuckets(r, v),
                                         Tail(invSketch))

\* The update loop over the entries of one inverse sketch.
RECURSIVE UpdateCounters(_, _)
UpdateCounters(r, invSketch) ==
    IF invSketch = <<>> THEN r
    ELSE LET v == Head(invSketch)
         IN  UpdateCounters(IF ~r.saturated
                            THEN [r EXCEPT !.sketchSizes[v] = (@ + (Uint16 - 1)) % Uint16]
                            ELSE DecrementInBuckets(r, v),
                            Tail(invSketch))

\* An erasure of the key that leaves the counters as they are.
ApplyKeyKeepsCounters(r, key) ==
    [r EXCEPT !.invSketches = [x \in (DOMAIN r.invSketches) \ {key} |-> r.invSketches[x]]]

\* The update for one key, and its erasure from the map.
ApplyKey(r, key) ==
    LET r1 == UpdateCounters(r, r.invSketches[key])
    IN  [r1 EXCEPT !.invSketches = [x \in (DOMAIN r.invSketches) \ {key} |-> r.invSketches[x]]]

\* The sequential branch: the BFS in instance i from position ind.
RECURSIVE SeqBFS(_, _, _, _)
SeqBFS(r, S, ind, i) ==
    IF ind >= FastSetSize(S) THEN [r EXCEPT !.searchSpaces[0] = S]
    ELSE LET u == FastSetKeyByIndex(S, ind)
             r1 == [r EXCEPT !.covered[i][u] = TRUE, !.exinfloc = @ + 1]
             r2 == IF <<u, i>> \in DOMAIN r1.invSketches THEN ApplyKey(r1, <<u, i>>) ELSE r1
         IN  SeqBFS(r2, EvalExpand(S, ForwardScan(graph.arcs[u]), u, instances[i], r2.covered[i]),
                    ind + 1, i)

\* The sequential branch: the instances i, i + 1, ..., l - 1.
RECURSIVE SeqEvaluate(_, _)
SeqEvaluate(r, i) ==
    IF i = l THEN r
    ELSE LET S == FastSetClear(r.searchSpaces[0])
             S1 == IF ~r.covered[i][r.newSeed.VertexId]
                   THEN FastSetInsert(S, r.newSeed.VertexId) ELSE S
         IN  SeqEvaluate(SeqBFS(r, S1, 0, i), i + 1)

\* The end of a greedy iteration, and the head of the next one if there is
\* one.
FinishIteration(r) ==
    LET more == Len(r.seedSet) + 1 < r.N
    IN  [r EXCEPT !.seedSet = Append(@, [VertexId |-> r.newSeed.VertexId,
                                         EstimatedInfluence |-> r.newSeed.EstimatedInfluence,
                                         ExactInfluence |-> Rat(r.exinfloc, l)]),
                  !.exinfloc = IF more THEN 0 ELSE @,
                  !.newSeed = IF more THEN NewSeed ELSE @,
                  !.pc = IF more THEN (IF r.saturated THEN "select" ELSE "grow") ELSE "done"]

\* The entry of the parallel region: every worker clears its queue, and the
\* reduction gives every worker a count of its own.
ParallelFork(r) ==
    [r EXCEPT !.updateQueues = [t \in 0 .. r.numt - 1 |-> <<>>],
              !.partial = [t \in 0 .. r.numt - 1 |-> 0],
              !.nextInst = 0,
              !.pc = "par"]

\* The parallel branch: the BFS of a worker in instance i from position ind.
RECURSIVE ParBFS(_, _, _, _, _, _, _)
ParBFS(cov, S, ind, i, Q, count, keys) ==
    IF ind >= FastSetSize(S) THEN [cov |-> cov, S |-> S, Q |-> Q, count |-> count]
    ELSE LET u == FastSetKeyByIndex(S, ind)
             cov1 == [cov EXCEPT ![u] = TRUE]
             Q1 == IF <<u, i>> \in keys THEN Append(Q, <<u, i>>) ELSE Q
         IN  ParBFS(cov1, EvalExpand(S, ForwardScan(graph.arcs[u]), u, instances[i], cov1),
                    ind + 1, i, Q1, count + 1, keys)

\* A worker that applies the first update of its queue itself, inside the
\* parallel region.
ParallelInstanceUpdatesInPlace(r, t) ==
    LET i == r.nextInst
        S == FastSetClear(r.searchSpaces[t])
        S1 == IF ~r.covered[i][r.newSeed.VertexId]
              THEN FastSetInsert(S, r.newSeed.VertexId) ELSE S
        b == ParBFS(r.covered[i], S1, 0, i, r.updateQueues[t], r.partial[t],
                    DOMAIN r.invSketches)
        r1 == [r EXCEPT !.covered[i] = b.cov,
                        !.searchSpaces[t] = b.S,
                        !.updateQueues[t] = b.Q,
                        !.partial[t] = b.count,
                        !.nextInst = i + 1]
    IN  IF b.Q # <<>> /\ Head(b.Q) \in DOMAIN r1.invSketches
        THEN ApplyKey(r1, Head(b.Q)) ELSE r1

\* A worker that writes the row of its instance anew from its search space.
ParallelInstanceOverwritesRow(r, t) ==
    LET i == r.nextInst
        S == FastSetClear(r.searchSpaces[t])
        S1 == IF ~r.covered[i][r.newSeed.VertexId]
              THEN FastSetInsert(S, r.newSeed.VertexId) ELSE S
        b == ParBFS(r.covered[i], S1, 0, i, r.updateQueues[t], r.partial[t],
                    DOMAIN r.invSketches)
    IN  [r EXCEPT !.covered[i] = [v \in Vertices |-> FastSetIsContained(b.S, v)],
                  !.searchSpaces[t] = b.S,
                  !.updateQueues[t] = b.Q,
                  !.partial[t] = b.count,
                  !.nextInst = i + 1]

\* Worker t runs the next iteration of the omp for loop.
ParallelInstance(r, t) ==
    LET i == r.nextInst
        S == FastSetClear(r.searchSpaces[t])
        S1 == IF ~r.covered[i][r.newSeed.VertexId]
              THEN FastSetInsert(S, r.newSeed.VertexId) ELSE S
        b == ParBFS(r.covered[i], S1, 0, i, r.updateQueues[t], r.partial[t],
                    DOMAIN r.invSketches)
    IN  [r EXCEPT !.covered[i] = b.cov,
                  !.searchSpaces[t] = b.S,
                  !.updateQueues[t] = b.Q,
                  !.partial[t] = b.count,
                  !.nextInst = i + 1]

\* The drain of one queue: invSketches[key] creates the key if it is absent.
RECURSIVE DrainQueue(_, _)
DrainQueue(r, Q) ==
    IF Q = <<>> THEN r
    ELSE DrainQueue(IF Head(Q) \in DOMAIN r.invSketches THEN ApplyKey(r, Head(Q)) ELSE r,
                    Tail(Q))

\* A drain that applies the updates of the first worker's queue only.
DrainQueuesFirstWorker(r, t) ==
    IF t = r.numt THEN r
    ELSE DrainQueue([r EXCEPT !.exinfloc = @ + r.partial[t]], r.updateQueues[t])

\* The join (the reduction adds the workers' counts) and the drain of the
\* queues t, t + 1, ..., numt - 1.
RECURSIVE DrainQueues(_, _)
DrainQueues(r, t) ==
    IF t = r.numt THEN r
    ELSE DrainQueues(DrainQueue([r EXCEPT !.exinfloc = @ + r.partial[t]], r.updateQueues[t]),
                     t + 1)

(***************************************************************************)
(* The runs of SKIM.  skim is the run; ref is a second run of Run on the   *)
(* same inputs with numt = 1 in which the random number generator, seeded  *)
(* alike, returns the same values: it takes every step skim takes.         *)
(***************************************************************************)
MaxN == 1
MaxThreads == 2

SeedCounts == {0, MaxN}
ThreadCounts == {1, MaxThreads}

SkimScenarios ==
    {Scenario(3, Complete3, FALSE, "BINARY", 1, 2, 15, 2, (1 .. MaxK) \cup {5}),
     Scenario(3, Complete3, FALSE, "TRIVALENCY", 1, 10, 61, 2, 1 .. MaxK),
     Scenario(2, Pair2, FALSE, "BINARY", 1, 2, 3, 3, 1 .. MaxK),
     Scenario(3, Path3, TRUE, "WEIGHTED", 1, 10, 2, 2, 1 .. MaxK)}

InitSKIM ==
    \E sc \in SkimScenarios :
        /\ Construct(sc)
        /\ oobRead = 0
        /\ instances = SkimInstances(modelType, randomSeed, indeg, binprob, graph, l)
        /\ OracleConstructed
        /\ k \in sc.ks
        /\ \E N \in SeedCounts, numt \in ThreadCounts :
              /\ skim = RunBegin(N, numt)
              /\ ref = RunBegin(N, 1)
        /\ call = NoCall

unchangedBySKIM == <<inputVars, oracleVars, est, call>>

\* One rank of the grow phase: the shuffle when a pass over the vertices
\* starts, the draw of the instance, and the BFS from the pair.
Grow ==
    /\ skim.pc = "grow"
    /\ skim.rank < n * l
    /\ \E perm \in IF skim.rank % n = 0 THEN Permutations(Vertices) ELSE {skim.permutation},
          draw \in 0 .. l - 1 :
          LET numperm1 == IF skim.rank % n = 0 THEN skim.numperm + 1 ELSE skim.numperm
              sourceVertexId == perm[skim.rank % n]
          IN  \E i \in SelectInstance(numperm1, skim.processed, sourceVertexId, draw) :
                  /\ skim' = GrowRank(skim, perm, i)
                  /\ ref' = IF ref.pc = "grow" THEN GrowRank(ref, perm, i) ELSE ref
    /\ UNCHANGED unchangedBySKIM

\* The grow phase ends without a seed: the buckets are built.
Saturate ==
    /\ skim.pc = "grow"
    /\ skim.rank >= n * l
    /\ skim' = BuildBuckets(skim)
    /\ ref' = IF ref.pc = "grow" THEN BuildBuckets(ref) ELSE ref
    /\ UNCHANGED unchangedBySKIM

\* The selection in saturated mode.
Select ==
    /\ skim.pc = "select"
    /\ skim' = SelectFromBuckets(skim)
    /\ ref' = IF ref.pc = "select" THEN SelectFromBuckets(ref) ELSE ref
    /\ UNCHANGED unchangedBySKIM

\* The sequential evaluation of the new seed and the end of the iteration.
EvaluateSequential ==
    /\ skim.pc = "eval"
    /\ skim.numt = 1
    /\ skim' = FinishIteration(SeqEvaluate(skim, 0))
    /\ ref' = IF ref.pc = "eval" THEN FinishIteration(SeqEvaluate(ref, 0)) ELSE ref
    /\ UNCHANGED unchangedBySKIM

\* The parallel evaluation: the fork, ...
Fork ==
    /\ skim.pc = "eval"
    /\ skim.numt > 1
    /\ skim' = ParallelFork(skim)
    /\ UNCHANGED <<ref, unchangedBySKIM>>

\* ... a worker taking the next instance, ...
Worker ==
    /\ skim.pc = "par"
    /\ skim.nextInst < l
    /\ \E t \in 0 .. skim.numt - 1 : skim' = ParallelInstance(skim, t)
    /\ UNCHANGED <<ref, unchangedBySKIM>>

\* ... and the join, the drain of the queues and the end of the iteration.
Drain ==
    /\ skim.pc = "par"
    /\ skim.nextInst = l
    /\ skim' = FinishIteration(DrainQueues(skim, 0))
    /\ ref' = IF ref.pc = "eval" THEN FinishIteration(SeqEvaluate(ref, 0)) ELSE ref
    /\ UNCHANGED unchangedBySKIM

NextSKIM ==
    Grow \/ Saturate \/ Select \/ EvaluateSequential \/ Fork \/ Worker \/ Drain
SpecSKIM == InitSKIM /\ [][NextSKIM]_vars

(***************************************************************************)
(* Properties of SKIM::Run.                                                *)
(***************************************************************************)
SeedVertices(r) == [x \in DOMAIN r.seedSet |-> r.seedSet[x].VertexId]

\* C4: two runs with identical (seed, graph, k, l, model) produce the same
\* sequence of seed vertices, whatever the number of worker threads and
\* whichever worker processes which instance: the run and the sequential
\* run with the same random draws have the same seed sequence.
C4_SeedSequenceDeterministic == SeedVertices(skim) = SeedVertices(ref)

\* The position of vertex u in the search space S, from 0.
PositionIn(S, u) == CHOOSE p \in 0 .. FastSetSize(S) - 1 : FastSetKeyByIndex(S, p) = u

\* The grow phase has just stopped at the seed: the seed is the only vertex
\* with k sketch entries, and the BFS that found it visited nothing after it.
StoppedAtSeed(r) ==
    LET u == r.newSeed.VertexId
        S == r.searchSpaces[0]
    IN  /\ u \in Vertices
        /\ r.sketchSizes[u] = k
        /\ \A v \in Vertices \ {u} : r.sketchSizes[v] < k
        /\ r.pc = "eval" =>
              /\ FastSetIsContained(S, u)
              /\ \E i \in 0 .. l - 1 :
                    /\ <<FastSetKeyByIndex(S, 0), i>> \in DOMAIN r.invSketches
                    /\ r.invSketches[<<FastSetKeyByIndex(S, 0), i>>]
                         = SubSeq(S.containedKeys, 1, PositionIn(S, u) + 1)

C8_State ==
    /\ skim.rank <= n * l
    /\ skim.pc = "grow" => \A u \in Vertices : skim.sketchSizes[u] < k
    /\ (skim.pc \in {"eval", "par"} /\ ~skim.saturated) => StoppedAtSeed(skim)

\* The pairs <<instance, vertex>> whose processed bit is set.
ProcessedPairs(r) == {<<i, v>> \in (0 .. l - 1) \X Vertices : r.processed[i][v]}

C8_Step ==
    /\ skim'.rank >= skim.rank
    /\ skim'.rank # skim.rank =>
          /\ skim.pc = "grow"
          /\ skim'.rank = skim.rank + 1
          /\ ProcessedPairs(skim) \subseteq ProcessedPairs(skim')
          /\ Cardinality(ProcessedPairs(skim') \ ProcessedPairs(skim)) = 1
    /\ (Len(skim'.seedSet) # Len(skim.seedSet) /\ ~skim.saturated) =>
          /\ skim'.rank = skim.rank
          /\ skim'.seedSet = Append(skim.seedSet, skim'.seedSet[Len(skim'.seedSet)])
          /\ skim'.seedSet[Len(skim'.seedSet)].VertexId = skim.newSeed.VertexId

\* C8: while the grow phase goes on no vertex has k sketch entries; the
\* first time one has, the BFS and the grow phase have stopped at it and it
\* becomes the seed of the iteration with no further rank drawn; rank never
\* decreases, never exceeds n*l, and every rank drawn goes to a pair that
\* had not been drawn before.
C8_GrowStopsAtFirstFullSketch == [](C8_State) /\ [][C8_Step]_vars

\* A second greedy iteration whose grow phase, resumed after the first
\* seed, has stopped at a vertex with k >= 2 entries.
C8_SecondSeedFromGrowth ==
    /\ skim.pc = "eval"
    /\ ~skim.saturated
    /\ Len(skim.seedSet) >= 1
    /\ k >= 2

\* buck[j] holds exactly the vertices with sketch size j > 0, once each, and
\* buckind points every such vertex to its slot.
BucketsConsistent(r) ==
    /\ ~r.oob
    /\ \A j \in DOMAIN r.buck :
          IF j = 0 THEN r.buck[j] = <<>>
          ELSE /\ Range(r.buck[j]) = {v \in Vertices : r.sketchSizes[v] = j}
               /\ Len(r.buck[j]) = Cardinality(Range(r.buck[j]))
    /\ \A v \in Vertices :
          r.sketchSizes[v] > 0 =>
              /\ r.sketchSizes[v] \in DOMAIN r.buck
              /\ r.buckind[v] < Len(r.buck[r.sketchSizes[v]])
              /\ At(r.buck[r.sketchSizes[v]], r.buckind[v]) = v

\* C9: in saturated mode the buckets are consistent before each selection,
\* and a selected seed has the largest sketch size of all vertices, that
\* size is positive, and its estimated marginal influence is size / l.
C9_SaturatedSelection ==
    /\ skim.pc = "select" => BucketsConsistent(skim)
    /\ (skim.saturated /\ skim.pc \in {"eval", "par"}) =>
          LET u == skim.newSeed.VertexId
          IN  /\ u \in Vertices
              /\ skim.sketchSizes[u] > 0
              /\ \A v \in Vertices : skim.sketchSizes[v] <= skim.sketchSizes[u]
              /\ skim.newSeed.EstimatedInfluence = Rat(skim.sketchSizes[u], l)

\* A second selection in saturated mode, made after the buckets were
\* updated by an evaluation, with another vertex still in a bucket.
C9_SelectedAfterBucketUpdate ==
    /\ skim.saturated
    /\ skim.pc = "eval"
    /\ skim.numSaturatedSeeds >= 2
    /\ \E v \in Vertices \ {skim.newSeed.VertexId} : skim.sketchSizes[v] > 0

RECURSIVE SumExactTimesL(_)
SumExactTimesL(seedSet) ==
    IF seedSet = <<>> THEN 0
    ELSE ((Head(seedSet).ExactInfluence[1] * l) \div Head(seedSet).ExactInfluence[2])
         + SumExactTimesL(Tail(seedSet))

RECURSIVE SumPartial(_, _)
SumPartial(r, t) == IF t = r.numt THEN 0 ELSE r.partial[t] + SumPartial(r, t + 1)

CoveredPairs(r) == {<<i, v>> \in (0 .. l - 1) \X Vertices : r.covered[i][v]}

\* C10: the exact marginal influences of the seeds, times l, are whole
\* numbers that add up to the number of covered pairs, in every state, with
\* the counts of an evaluation in progress added; so each seed's exact
\* marginal influence times l is the number of pairs its iteration covered,
\* and no pair is counted twice.
C10_ExactInfluenceCountsNewPairs ==
    /\ \A x \in DOMAIN skim.seedSet :
          (skim.seedSet[x].ExactInfluence[1] * l) % skim.seedSet[x].ExactInfluence[2] = 0
    /\ SumExactTimesL(skim.seedSet) + (IF skim.pc = "par" THEN SumPartial(skim, 0) ELSE 0)
          = Cardinality(CoveredPairs(skim))

\* A finished parallel run of at least two seeds whose second seed covered
\* something new while pairs were already covered.
C10_TwoSeedsEvaluatedInParallel ==
    /\ skim.pc = "done"
    /\ skim.numt > 1
    /\ Len(skim.seedSet) >= 2
    /\ skim.seedSet[2].ExactInfluence[1] > 0

AllCovered(r) == \A i \in 0 .. l - 1, v \in Vertices : r.covered[i][v]

\* The work a run has left, as a number: seeds still to select, ranks still
\* to draw, the bucket build, and the position inside the iteration.
WorkLeft(r) ==
    ((r.N - Len(r.seedSet)) * (l + 4)) + ((n * l) - r.rank)
    + (IF r.saturated THEN 0 ELSE 1)
    + (CASE r.pc \in {"grow", "select"} -> l + 3
         [] r.pc = "eval" -> l + 2
         [] r.pc = "par" -> (l + 1) - r.nextInst
         [] OTHER -> 0)

\* The run can take a step: the loop has ended, or the next piece of the
\* loop body can run; in the grow phase this needs a value of distr(rnd)
\* that selects an instance, which exists iff the source has an instance
\* that is not processed yet.
CanStep(r) ==
    \/ r.pc = "done"
    \/ r.pc \in {"select", "eval"}
    \/ r.pc = "par" /\ r.nextInst <= l
    \/ r.pc = "grow" /\ r.rank >= n * l
    \/ /\ r.pc = "grow"
       /\ r.rank < n * l
       /\ \A perm \in IF r.rank % n = 0 THEN Permutations(Vertices) ELSE {r.permutation} :
              \E draw \in 0 .. l - 1 :
                  SelectInstance(IF r.rank % n = 0 THEN r.numperm + 1 ELSE r.numperm,
                                 r.processed, perm[r.rank % n], draw) # {}

C11_State ==
    /\ CanStep(skim)
    /\ WorkLeft(skim) >= 0
    /\ skim.pc = "done" => (Len(skim.seedSet) = skim.N \/ AllCovered(skim))

C11_Step == WorkLeft(skim') < WorkLeft(skim)

\* C11: every run of the greedy loop ends (a run that has not ended can
\* always take a step, given a draw that returns an unprocessed instance,
\* and every step lowers a bounded measure of the work left), and when it
\* has ended either N seeds were selected or every pair (instance, vertex)
\* is covered; so the loop never stops on an empty top bucket with a pair
\* left uncovered.
C11_GreedyLoopTerminates == [](C11_State) /\ [][C11_Step]_vars

\* A run that ended on an empty top bucket, in saturated mode, with fewer
\* than N seeds.
C11_StoppedOnEmptyBuckets ==
    /\ skim.pc = "done"
    /\ skim.saturated
    /\ Len(skim.seedSet) < skim.N
    /\ Len(skim.seedSet) >= 1

\* The number of vertices covered in instance i.
CoveredCount(r, i) == Cardinality({v \in Vertices : r.covered[i][v]})

\* C12: coverage is monotone: a pair (instance, vertex) that is covered
\* stays covered, so the number of covered vertices of each instance never
\* decreases from one step, and so from one greedy iteration, to the next.
C12_CoverageMonotone ==
    [][/\ \A i \in 0 .. l - 1, v \in Vertices : skim.covered[i][v] => skim'.covered[i][v]
       /\ \A i \in 0 .. l - 1 : CoveredCount(skim, i) <= CoveredCount(skim', i)]_vars

\* A third greedy iteration is being evaluated in parallel, in an instance
\* where earlier seeds covered some vertices but not all.
C12_ThirdSeedOnPartlyCoveredInstance ==
    /\ skim.pc = "par"
    /\ Len(skim.seedSet) >= 2
    /\ \E i \in 0 .. l - 1 : CoveredCount(skim, i) \in 1 .. n - 1

\* What the workers share and only read inside the parallel region.
SharedByWorkers(r) == <<r.invSketches, r.sketchSizes, r.buck, r.buckind>>

\* A step inside the parallel region writes at most the row covered[i] of
\* the instance i it evaluates, and the search space, the update queue and
\* the count of one worker.
WritesOfOneWorker(r, r2) ==
    /\ r2.nextInst = r.nextInst + 1
    /\ \A i \in 0 .. l - 1 : i # r.nextInst => r2.covered[i] = r.covered[i]
    /\ \E t \in 0 .. r.numt - 1 :
          \A t2 \in (0 .. r.numt - 1) \ {t} :
              /\ r2.searchSpaces[t2] = r.searchSpaces[t2]
              /\ r2.updateQueues[t2] = r.updateQueues[t2]
              /\ r2.partial[t2] = r.partial[t2]

\* C13: inside the parallel region every step of a worker, in every order
\* of the workers, writes only the row covered[i] of its own instance (the
\* instances are handed out once each, so a row has one writer), its own
\* search space and its own update queue, and leaves invSketches,
\* sketchSizes, buck and buckind as they are; these change only in the
\* step that follows the join, when every instance has been evaluated.
C13_WorkersWriteDisjointData ==
    [][skim.pc = "par" =>
          /\ skim'.pc = "par" =>
                /\ WritesOfOneWorker(skim, skim')
                /\ SharedByWorkers(skim') = SharedByWorkers(skim)
          /\ SharedByWorkers(skim') # SharedByWorkers(skim) =>
                /\ skim.nextInst = l
                /\ skim'.pc # "par"]_vars

\* Both workers have evaluated an instance and queued an update, and the
\* join has not happened yet.
C13_TwoWorkersQueuedUpdates ==
    /\ skim.pc = "par"
    /\ skim.numt > 1
    /\ skim.nextInst = l
    /\ \A t \in 0 .. skim.numt - 1 : skim.updateQueues[t] # <<>> /\ skim.partial[t] > 0

(***************************************************************************)
(* Ranks and pairs.  Both programs are run on one input: SKIM, and when it *)
(* has ended the first part of the oracle's RunPreprocessing.  The inputs  *)
(* have l = 4 instances on a single vertex, so that the rejection loop     *)
(* meets processed instances, and l = 3 on two vertices.                   *)
(***************************************************************************)
Single1 == <<>>

RankScenarios ==
    {Scenario(1, Single1, FALSE, "BINARY", 1, 2, 3, 4, {MaxK, 5}),
     Scenario(2, Pair2, FALSE, "BINARY", 1, 2, 3, 3, {MaxK})}

InitRanks ==
    \E sc \in RankScenarios :
        /\ Construct(sc)
        /\ oobRead = 0
        /\ instances = SkimInstances(modelType, randomSeed, indeg, binprob, graph, l)
        /\ OracleConstructed
        /\ k \in sc.ks
        /\ \E N \in SeedCounts, numt \in ThreadCounts :
              /\ skim = RunBegin(N, numt)
              /\ ref = RunBegin(N, 1)
        /\ call = NoCall

RunPreprocessingAfterRun == skim.pc = "done" /\ RunPreprocessingBegin

NextRanks == NextSKIM \/ RunPreprocessingAfterRun
SpecRanks == InitRanks /\ [][NextRanks]_vars

AllPairs == (0 .. l - 1) \X Vertices

\* The oracle's ranks: the permutation gives every rank one pair and every
\* pair one rank, and the grouping gives every instance n ranks, one for
\* each source vertex.
OracleRanksBijective ==
    /\ {<<RankInstance(r), RankSource(r)>> : r \in 0 .. (n * l) - 1} = AllPairs
    /\ \A i \in 0 .. l - 1 :
          /\ Len(instanceRanks[i]) = n
          /\ {p[2] : p \in Range(instanceRanks[i])} = Vertices
          /\ \A p \in Range(instanceRanks[i]) :
                RankInstance(p[1]) = i /\ RankSource(p[1]) = p[2]
    /\ UNION {{p[1] : p \in Range(instanceRanks[i])} : i \in 0 .. l - 1} = 0 .. (n * l) - 1

\* The instances of source s that are not processed yet.
Unprocessed(r, s) == {i \in 0 .. l - 1 : ~r.processed[i][s]}

\* SKIM's next pick: whatever the shuffle gives, the source has
\* l - numperm + 1 >= 1 unprocessed instances, and every instance the
\* selection can end with is one of them.
SkimPickIsFresh(r) ==
    \A perm \in IF r.rank % n = 0 THEN Permutations(Vertices) ELSE {r.permutation} :
        LET numperm1 == IF r.rank % n = 0 THEN r.numperm + 1 ELSE r.numperm
            s == perm[r.rank % n]
        IN  /\ (l - numperm1) + 1 >= 1
            /\ Cardinality(Unprocessed(r, s)) = (l - numperm1) + 1
            /\ \A draw \in 0 .. l - 1 :
                  SelectInstance(numperm1, r.processed, s, draw) \subseteq Unprocessed(r, s)
            /\ \E draw \in 0 .. l - 1 : SelectInstance(numperm1, r.processed, s, draw) # {}

C14_State ==
    /\ opc # "constructed" => OracleRanksBijective
    /\ Cardinality(ProcessedPairs(skim)) = skim.rank
    /\ skim.rank = n * l => ProcessedPairs(skim) = AllPairs
    /\ (skim.pc = "grow" /\ skim.rank < n * l) => SkimPickIsFresh(skim)

C14_Step ==
    skim'.rank # skim.rank =>
        \E i \in 0 .. l - 1 :
            LET s == skim'.permutation[skim.rank % n]
            IN  /\ ~skim.processed[i][s]
                /\ ProcessedPairs(skim') = ProcessedPairs(skim) \cup {<<i, s>>}

\* C14: ranks and pairs (vertex, instance) are in bijection.  In the
\* oracle every rank below n*l has one pair, every instance gets n ranks
\* and every vertex is a source once per instance.  In SKIM every drawn rank
\* picks a pair that was not processed just before, an unprocessed instance
\* of the source exists whenever one is picked (the modulus l - numperm + 1
\* is at least 1), and after n*l ranks every pair is processed once.
C14_RanksAndPairsInBijection == [](C14_State) /\ [][C14_Step]_vars

\* SKIM has drawn all n*l ranks with l = 4 instances, so the rejection loop
\* met processed instances, and the oracle has grouped its ranks.
C14_AllRanksDrawnAndGrouped ==
    /\ l >= 4
    /\ skim.rank = n * l
    /\ opc = "bfs"

(***************************************************************************)
(* FastStaticGraph as arrays: vertices[0 .. n] holds the FirstArcId of     *)
(* each vertex and arcs[0 .. NumArcs] the arc records, as ReadFromArcList  *)
(* fills them.  The memory of both arrays is zeroed when it is created.    *)
(* outside is a history field: the indices the scatter pass wrote to       *)
(* beyond the allocation, and writes the pairs (vertex, index) of all its  *)
(* writes.  failed holds the conditions of the Assert       *)
(* statements that did not hold.                                           *)
(***************************************************************************)
MaxArcs == 2
MaxBuildVertices == 3

ZeroArc == FastArc(0, FALSE, FALSE)

\* numArcs *= (buildIncomingArcs || isDirected) ? 2 : 1;
CsrAllocatedArcs(inArcs, isDirected, buildIncomingArcs) ==
    Len(inArcs) * (IF buildIncomingArcs \/ isDirected THEN 2 ELSE 1)

\* The degree pass: what vertices[v].FirstArcId counts up to.
RECURSIVE CsrDegree(_, _, _, _)
CsrDegree(inArcs, v, isDirected, buildIncomingArcs) ==
    IF inArcs = <<>> THEN 0
    ELSE (IF Head(inArcs)[1] = v THEN 1 ELSE 0)
         + (IF Head(inArcs)[2] = v /\ (buildIncomingArcs \/ ~isDirected) THEN 1 ELSE 0)
         + CsrDegree(Tail(inArcs), v, isDirected, buildIncomingArcs)

\* The rewiring: firstFreeArcId[u] for u = 0 .. numVertices, the sum of the
\* degrees below u.
RECURSIVE CsrFirstFree(_, _, _, _)
CsrFirstFree(inArcs, u, isDirected, buildIncomingArcs) ==
    IF u = 0 THEN 0
    ELSE CsrFirstFree(inArcs, u - 1, isDirected, buildIncomingArcs)
         + CsrDegree(inArcs, u - 1, isDirected, buildIncomingArcs)

\* arcs[idx].SetOtherVertexId(other) and the flag setters named.
CsrWrite(st, u, idx, other, fwd, bwd) ==
    IF idx \in DOMAIN st.arcs
    THEN [st EXCEPT !.arcs[idx] = FastArc(other, @.Forward \/ fwd, @.Backward \/ bwd),
                    !.writes = @ \cup {<<u, idx>>}]
    ELSE [st EXCEPT !.outside = @ \cup {idx},
                    !.writes = @ \cup {<<u, idx>>}]

\* The scatter pass over the input arcs.
RECURSIVE CsrScatter(_, _, _, _)
CsrScatter(inArcs, st, isDirected, buildIncomingArcs) ==
    IF inArcs = <<>> THEN st
    ELSE LET from == Head(inArcs)[1]
             to == Head(inArcs)[2]
             f1 == IF st.free[from] < st.free[from + 1] THEN st.failed
                   ELSE st.failed \cup {"firstFreeArcId[fromVertexId] < firstFreeArcId[fromVertexId + 1]"}
             st1 == [CsrWrite(st, from, st.free[from], to, TRUE, ~isDirected /\ buildIncomingArcs)
                       EXCEPT !.free[from] = @ + 1, !.failed = f1]
             f2 == IF st1.free[to] < st1.free[to + 1] THEN st1.failed
                   ELSE st1.failed \cup {"firstFreeArcId[toVertexId] < firstFreeArcId[toVertexId + 1]"}
             st2 == IF buildIncomingArcs \/ ~isDirected
                    THEN [CsrWrite(st1, to, st1.free[to], from, ~isDirected, buildIncomingArcs)
                            EXCEPT !.free[to] = @ + 1, !.failed = f2]
                    ELSE st1
         IN  CsrScatter(Tail(inArcs), st2, isDirected, buildIncomingArcs)

\* The arcs of vertex u: arcs[vertices[u] .. vertices[u + 1]), as far as the
\* array goes.
CsrBlock(g, u) ==
    LET first == g.vertices[u]
        last == Min(g.vertices[u + 1], g.NumArcs + 1)
    IN  [j \in 1 .. last - first |-> g.arcs[(first + j) - 1]]

\* The sort of every vertex's block.
CsrSortBlocks(g) ==
    [g EXCEPT !.arcs =
        [j \in DOMAIN g.arcs |->
            IF \E u \in 0 .. g.NumVertices - 1 : g.vertices[u] <= j /\ j < g.vertices[u + 1]
            THEN LET u == CHOOSE u \in 0 .. g.NumVertices - 1 :
                              g.vertices[u] <= j /\ j < g.vertices[u + 1]
                 IN  SortArcs(CsrBlock(g, u))[(j - g.vertices[u]) + 1]
            ELSE g.arcs[j]]]

\* FastArc::GetErrors: an arc with neither flag is an error.
ArcGetErrors(a) == IF ~a.Forward /\ ~a.Backward THEN 1 ELSE 0

\* FastStaticGraph::GetErrors: the vertex loop, the check of the dummy
\* vertex (which reports without counting) and the arc loop.
RECURSIVE CsrVertexErrors(_, _)
CsrVertexErrors(g, v) ==
    IF v = g.NumVertices THEN 0
    ELSE (IF g.vertices[v] < 0 \/ g.vertices[v] >= g.NumArcs + 1 THEN 1 ELSE 0)
         + (IF v > 0 /\ g.vertices[v] < g.vertices[v - 1] THEN 1 ELSE 0)
         + CsrVertexErrors(g, v + 1)

RECURSIVE CsrArcErrors(_, _)
CsrArcErrors(g, arcId) ==
    IF arcId >= g.NumArcs THEN 0
    ELSE (IF g.arcs[arcId].OtherVertexId < 0 \/ g.arcs[arcId].OtherVertexId >= g.NumVertices
          THEN 1 ELSE 0)
         + ArcGetErrors(g.arcs[arcId])
         + CsrArcErrors(g, arcId + 1)

GetErrors(g) == CsrVertexErrors(g, 0) + CsrArcErrors(g, 0)

\* ReadFromArcList, array by array.
CsrReadFromArcList(numVertices, inArcs, isDirected, buildIncomingArcs) ==
    LET numArcs == CsrAllocatedArcs(inArcs, isDirected, buildIncomingArcs)
        free0 == [u \in 0 .. numVertices |->
                    CsrFirstFree(inArcs, u, isDirected, buildIncomingArcs)]
        failed0 == IF free0[numVertices] = numArcs THEN {}
                   ELSE {"currentFirstArc == numArcs"}
        st == CsrScatter(inArcs,
                         [free |-> free0,
                          arcs |-> [j \in 0 .. numArcs |-> ZeroArc],
                          outside |-> {}, writes |-> {}, failed |-> failed0],
                         isDirected, buildIncomingArcs)
        g == [built |-> TRUE,
              NumVertices |-> numVertices,
              NumArcs |-> numArcs,
              IsDirected |-> isDirected,
              vertices |-> [u \in 0 .. numVertices |->
                              IF u = numVertices THEN numArcs ELSE free0[u]],
              arcs |-> [st.arcs EXCEPT ![numArcs] =
                           FastArc(numVertices, @.Forward, @.Backward)],
              total |-> free0[numVertices],
              outside |-> st.outside,
              writes |-> st.writes,
              failed |-> st.failed]
    IN  IF buildIncomingArcs /\ isDirected THEN CsrSortBlocks(g) ELSE g

\* The graph before it is built.
Detached == [built |-> FALSE, NumVertices |-> 0]

\* The arc lists a builder hands over: any pairs when the graph is
\* directed, pairs with from < to when it is undirected.
BuildArcLists(numVertices, isDirected) ==
    LET pairs == {e \in (0 .. numVertices - 1) \X (0 .. numVertices - 1) :
                     isDirected \/ e[1] < e[2]}
    IN  UNION {[1 .. m -> pairs] : m \in 0 .. MaxArcs}

InitBuild ==
    /\ graph = Detached
    /\ \E isDirected \in BOOLEAN, buildIncomingArcs \in BOOLEAN :
          \E inArcs \in BuildArcLists(MaxBuildVertices, isDirected) :
              call = [made |-> FALSE, numVertices |-> MaxBuildVertices, inArcs |-> inArcs,
                      directed |-> isDirected, buildIncomingArcs |-> buildIncomingArcs]
    /\ indeg = <<>>
    /\ randomSeed = 0
    /\ modelType = "BINARY"
    /\ binprob = 0
    /\ k = 1
    /\ l = 1
    /\ oobRead = 0
    /\ instances = <<>>
    /\ OracleConstructed
    /\ skim = NoRun
    /\ ref = NoRun

\* BuildFromArcList: ReadFromArcList, then the consistency check.  A write
\* beyond the allocation may end the process.
BuildFromArcList ==
    /\ ~call.made
    /\ LET g == CsrReadFromArcList(call.numVertices, call.inArcs, call.directed,
                                   call.buildIncomingArcs)
           numErrors == GetErrors(g)
       IN  \E crashed \in IF g.outside = {} THEN {FALSE} ELSE BOOLEAN :
               graph' = [built |-> g.built, NumVertices |-> g.NumVertices,
                         NumArcs |-> g.NumArcs, IsDirected |-> g.IsDirected,
                         vertices |-> g.vertices, arcs |-> g.arcs, total |-> g.total,
                         outside |-> g.outside, writes |-> g.writes,
                         failed |-> g.failed \cup (IF numErrors = 0 THEN {}
                                                   ELSE {"numErrors == 0"}),
                         numErrors |-> numErrors,
                         crashed |-> crashed]
    /\ call' = [call EXCEPT !.made = TRUE]
    /\ UNCHANGED <<indeg, randomSeed, modelType, binprob, k, l, oobRead, instances,
                   oracleVars, est, skim, ref>>

NextBuild == BuildFromArcList
SpecBuild == InitBuild /\ [][NextBuild]_vars

\* C15: for each of the four combinations of (directed, build_incoming)
\* and every arc list, the built graph has vertices[v] <= vertices[v + 1]
\* for all v and vertices[n] = m', the allocated arc count m' is the total
\* of the degree pass, m' is 2 * |arcs| when incoming arcs are requested and
\* |arcs| otherwise, and the scatter pass wrote only inside the block of the
\* vertex it wrote for and inside the arcs array.
C15_OffsetsAndArcCount ==
    graph.built =>
        /\ \A v \in 0 .. graph.NumVertices - 1 : graph.vertices[v] <= graph.vertices[v + 1]
        /\ graph.vertices[graph.NumVertices] = graph.NumArcs
        /\ graph.NumArcs = graph.total
        /\ graph.NumArcs = IF call.buildIncomingArcs THEN 2 * Len(call.inArcs)
                            ELSE Len(call.inArcs)
        /\ graph.outside = {}
        /\ \A w \in graph.writes :
              /\ graph.vertices[w[1]] <= w[2]
              /\ w[2] < graph.vertices[w[1] + 1]
              /\ w[2] < graph.NumArcs

HasForward(a) == a.Forward
HasBackward(a) == a.Backward

RECURSIVE Reverse(_)
Reverse(x) == IF x = <<>> THEN <<>> ELSE Append(Reverse(Tail(x)), Head(x))

\* The arcs with the forward flag are the first ones of the block, and the
\* arcs with the backward flag the last ones.
FlagsDelimit(block) ==
    /\ \E p \in 0 .. Len(block) : \A j \in 1 .. Len(block) : block[j].Forward <=> j <= p
    /\ \E q \in 0 .. Len(block) : \A j \in 1 .. Len(block) : block[j].Backward <=> j > q

\* C16: in a graph built with incoming arcs (directed and sorted, or
\* undirected), in every vertex's block the arcs with the forward flag are a
\* contiguous prefix and the arcs with the backward flag a contiguous
\* suffix, so the forward scan from the first arc that breaks at the first
\* arc without the forward flag visits exactly the arcs with that flag, and
\* the backward scan from the last arc exactly the arcs with the backward
\* flag.
C16_FlagsDelimitScans ==
    (graph.built /\ call.buildIncomingArcs) =>
        \A u \in 0 .. graph.NumVertices - 1 :
            LET block == CsrBlock(graph, u)
            IN  /\ FlagsDelimit(block)
                /\ ForwardScan(block) = SelectSeq(block, HasForward)
                /\ BackwardScan(block) = Reverse(SelectSeq(block, HasBackward))

\* A directed graph with incoming arcs in which the sort moved an outgoing
\* arc of some vertex in front of an incoming one.
C16_SortMovedOutgoingArcFirst ==
    /\ graph.built
    /\ call.directed
    /\ call.buildIncomingArcs
    /\ \E u \in 0 .. graph.NumVertices - 1 :
          /\ CsrBlock(graph, u) # ScatterArcs(call.inArcs, u, TRUE, TRUE)
          /\ \E j \in DOMAIN CsrBlock(graph, u) : ~CsrBlock(graph, u)[j].Forward
          /\ \E j \in DOMAIN CsrBlock(graph, u) : ~CsrBlock(graph, u)[j].Backward

(***************************************************************************)
(* GenerateSeetSet(S, N, UNIFORM, dist): N values of dist(twisty) appended *)
(* to S, where dist is uniform on 0 .. NumVertices - 1 and any value of    *)
(* the range can be drawn each time.                                       *)
(***************************************************************************)
GenerateSeetSetUniform(S, N, numVertices) ==
    {S \o draws : draws \in [1 .. N -> 0 .. numVertices - 1]}

\* One query of Run with the UNIFORM method, up to the seed set: S.clear()
\* and GenerateSeetSet(S, N, method, dist).
GenerateSeedSetCall ==
    /\ ~call.made
    /\ \E N \in 0 .. Min(MaxSeeds, n) :
          \E S \in GenerateSeetSetUniform(<<>>, N, n) :
              call' = [made |-> TRUE, method |-> "UNIFORM", N |-> N, S |-> S]
    /\ UNCHANGED <<inputVars, oracleVars, est, skim, ref>>

NextSeedSet == GenerateSeedSetCall
SpecSeedSet == InitEst /\ [][NextSeedSet]_vars

\* C17: with the UNIFORM method and N <= n, GenerateSeetSet returns exactly
\* N vertex ids, each smaller than n, that are pairwise distinct.
C17_UniformSeedsDistinct ==
    call.made =>
        /\ Len(call.S) = call.N
        /\ \A j \in DOMAIN call.S : call.S[j] \in 0 .. n - 1
        /\ \A i, j \in DOMAIN call.S : i # j => call.S[i] # call.S[j]

(***************************************************************************)
(* The TRIVALENCY threshold.                                               *)
(***************************************************************************)
\* SKIM::Contained<TRIVALENCY> reads triprob[index], index = hash % 3.
SkimTriprobIndex(h, i) == Mod32(h, Len(triprob))

\* FastRSInfluenceOracle::Contained<TRIVALENCY> computes index and reads
\* triprob[i].
OracleTriprobIndex(h, i) == i

\* C18: under TRIVALENCY, in SKIM and in the oracle, the arc u -> v is in
\* instance i iff (h mod R) < triprob[h mod 3], h being the hash of
\* (u, v, i), and the index triprob is read at is 0, 1 or 2 for every
\* instance i < l.
C18_TrivalencyThresholdByHash ==
    (call.made /\ modelType = "TRIVALENCY") =>
        LET h == Murmur3Hash(randomSeed, call.a, call.b, call.i, l)
            present == Mod32(h, resolution) < At(triprob, Mod32(h, 3))
        IN  /\ call.skimEval = present
            /\ call.skimGrow = present
            /\ SkimTriprobIndex(h, call.i) \in 0 .. 2
            /\ call.oraclePre = present
            /\ OracleTriprobIndex(h, call.i) \in 0 .. 2


(***************************************************************************)
(* GetErrors on a graph that was attached rather than built: the arrays    *)
(* hold whatever the shared memory holds.  The states drawn are all the    *)
(* contents of MaxCheckVertices + 1 offsets and MaxCheckArcs arc records.  *)
(***************************************************************************)
MaxCheckVertices == 2
MaxCheckArcs == 2

AttachedArcs ==
    {FastArc(other, fwd, bwd) :
        other \in 0 .. MaxCheckVertices, fwd \in BOOLEAN, bwd \in BOOLEAN}

\* Attach: header, vertices and arcs as found.
InitErrors ==
    /\ \E offsets \in [0 .. MaxCheckVertices -> -1 .. MaxCheckArcs + 1],
          found \in [0 .. MaxCheckArcs - 1 -> AttachedArcs] :
          graph = [built |-> TRUE,
                   NumVertices |-> MaxCheckVertices,
                   NumArcs |-> MaxCheckArcs,
                   vertices |-> offsets,
                   arcs |-> [j \in 0 .. MaxCheckArcs |->
                               IF j = MaxCheckArcs
                               THEN FastArc(MaxCheckVertices, FALSE, FALSE)
                               ELSE found[j]]]
    /\ call = NoCall
    /\ indeg = <<>>
    /\ randomSeed = 0
    /\ modelType = "BINARY"
    /\ binprob = 0
    /\ k = 1
    /\ l = 1
    /\ oobRead = 0
    /\ instances = <<>>
    /\ OracleConstructed
    /\ skim = NoRun
    /\ ref = NoRun

\* int numErrors = GetErrors(verbose);
GetErrorsCall ==
    /\ ~call.made
    /\ call' = [made |-> TRUE, numErrors |-> GetErrors(graph)]
    /\ UNCHANGED <<graph, indeg, randomSeed, modelType, binprob, k, l, oobRead,
                   instances, oracleVars, est, skim, ref>>

NextErrors == GetErrorsCall
SpecErrors == InitErrors /\ [][NextErrors]_vars

OffsetsInRange(g) ==
    \A v \in 0 .. g.NumVertices : g.vertices[v] >= 0 /\ g.vertices[v] <= g.NumArcs

OffsetsAscending(g) ==
    \A v \in 0 .. g.NumVertices - 1 : g.vertices[v] <= g.vertices[v + 1]

BlocksSorted(g) ==
    \A u \in 0 .. g.NumVertices - 1 :
        \A a, b \in g.vertices[u] .. g.vertices[u + 1] - 1 :
            a < b => ~ArcLess(g.arcs[b], g.arcs[a])

\* The graph invariants: offsets in range and ascending, the dummy vertex
\* pointing at the dummy arc, every arc's other vertex below n, every arc
\* with a direction flag, every block sorted under the arc key.
CsrInvariants(g) ==
    /\ OffsetsInRange(g)
    /\ OffsetsAscending(g)
    /\ g.vertices[g.NumVertices] = g.NumArcs
    /\ \A j \in 0 .. g.NumArcs - 1 :
          /\ g.arcs[j].OtherVertexId < g.NumVertices
          /\ g.arcs[j].Forward \/ g.arcs[j].Backward
    /\ BlocksSorted(g)

\* C19: GetErrors returns a count greater than zero for every CSR state
\* that violates one of the graph invariants: an offset that decreases or
\* is out of range, vertices[n] different from the arc count, an arc whose
\* OtherVertexId is not below n, an arc with neither direction flag, or a
\* block that is not sorted under the arc key.
C19_GetErrorsCountsEveryViolation ==
    (call.made /\ ~CsrInvariants(graph)) => call.numErrors > 0


(***************************************************************************)
(* SKIM::Run asked for more seeds than there are vertices, and on the      *)
(* graph of two complete components in which every arc is present.         *)
(***************************************************************************)
TwoK3 ==
    <<<<0, 1>>, <<0, 2>>, <<1, 0>>, <<1, 2>>, <<2, 0>>, <<2, 1>>,
      <<3, 4>>, <<3, 5>>, <<4, 3>>, <<4, 5>>, <<5, 3>>, <<5, 4>>>>

TwoK3Scenario == Scenario(6, TwoK3, FALSE, "BINARY", 1, 1, 7, 1, {1, 2, MaxK})

SeedScenarios ==
    {TwoK3Scenario,
     Scenario(3, Complete3, FALSE, "BINARY", 1, 2, 15, 2, {1, 2, 5}),
     Scenario(3, Path3, TRUE, "WEIGHTED", 1, 10, 2, 2, {1, MaxK}),
     Scenario(2, Pair2, FALSE, "BINARY", 1, 2, 3, 3, {1, MaxK})}

\* The N of the command line: 2 on the two components, more than the
\* number of vertices elsewhere.
SeedsAsked(sc) == IF sc = TwoK3Scenario THEN {2} ELSE {sc.n + MaxN}

InitSeeds ==
    \E sc \in SeedScenarios :
        /\ Construct(sc)
        /\ oobRead = 0
        /\ instances = SkimInstances(modelType, randomSeed, indeg, binprob, graph, l)
        /\ OracleConstructed
        /\ k \in sc.ks
        /\ \E N \in SeedsAsked(sc), numt \in ThreadCounts :
              /\ skim = RunBegin(N, numt)
              /\ ref = RunBegin(N, 1)
        /\ call = NoCall

SpecSeeds == InitSeeds /\ [][NextSKIM]_vars

IsTwoK3 == n = TwoK3Scenario.n

\* C20: the seeds of a run are pairwise distinct; a seed, when it is
\* selected, is uncovered in at least one instance, and the exact influence
\* recorded for it is positive; the run returns at most n seeds also when it
\* is asked for more than n; and on the two disconnected complete
\* components with every arc present and N = 2 the run returns two seeds,
\* one in each component.
C20_SeedsDistinctAndUseful ==
    /\ \A a, b \in DOMAIN skim.seedSet :
          a # b => skim.seedSet[a].VertexId # skim.seedSet[b].VertexId
    /\ \A a \in DOMAIN skim.seedSet :
          /\ skim.seedSet[a].VertexId \in Vertices
          /\ skim.seedSet[a].ExactInfluence[1] > 0
    /\ skim.pc = "eval" => \E i \in 0 .. l - 1 : ~skim.covered[i][skim.newSeed.VertexId]
    /\ Len(skim.seedSet) <= n
    /\ (IsTwoK3 /\ skim.pc = "done") =>
          /\ Len(skim.seedSet) = 2
          /\ (skim.seedSet[1].VertexId \div 3) # (skim.seedSet[2].VertexId \div 3)

\* A run asked for more seeds than there are vertices that ended in total
\* coverage with as many seeds as vertices.
C20_AskedForMoreThanAllVertices ==
    /\ skim.pc = "done"
    /\ skim.N > n
    /\ Len(skim.seedSet) = n
    /\ AllCovered(skim)

(***************************************************************************)
(* FastSet on its own: a set over [0, MaxKeys) under any sequence of at    *)
(* most MaxSetOps calls of Insert, DeleteByIndex, DeleteBack and Clear     *)
(* whose arguments meet the conditions the functions assert.  The set is   *)
(* searchSpace; call keeps the number of calls, the distinct keys inserted *)
(* since the last Clear in the order of their first insertion, and whether *)
(* a delete happened since.                                                *)
(***************************************************************************)
MaxKeys == 3
MaxSetOps == 4

\* isContained[containedKeys[index]] = false; swap(back, [index]); pop_back.
FastSetDeleteByIndex(S, index) ==
    LET keys == S.containedKeys
        key == keys[index + 1]
        swapped == [keys EXCEPT ![index + 1] = keys[Len(keys)], ![Len(keys)] = key]
    IN  [isContained |-> [S.isContained EXCEPT ![key] = FALSE],
         containedKeys |-> SubSeq(swapped, 1, Len(keys) - 1)]

\* key = containedKeys.back(); isContained[key] = false; pop_back.
FastSetDeleteBack(S) ==
    LET keys == S.containedKeys
    IN  [isContained |-> [S.isContained EXCEPT ![keys[Len(keys)]] = FALSE],
         containedKeys |-> SubSeq(keys, 1, Len(keys) - 1)]

InitFastSet ==
    /\ searchSpace = FastSetNew(MaxKeys)
    /\ call = [made |-> FALSE, ops |-> 0, op |-> "none", key |-> 0,
               inserted |-> <<>>, deleted |-> FALSE, before |-> FastSetNew(MaxKeys)]
    /\ graph = Detached
    /\ indeg = <<>>
    /\ randomSeed = 0
    /\ modelType = "BINARY"
    /\ binprob = 0
    /\ k = 1
    /\ l = 1
    /\ oobRead = 0
    /\ instances = <<>>
    /\ permutation = <<>>
    /\ instanceRanks = <<>>
    /\ instI = 0
    /\ srcJ = 0
    /\ localSketches = <<>>
    /\ sketches = <<>>
    /\ sketchSize = 0
    /\ opc = "constructed"
    /\ est = NoEstimate
    /\ skim = NoRun
    /\ ref = NoRun

unchangedByFastSet ==
    <<inputVars, permutation, instanceRanks, instI, srcJ, localSketches, sketches,
      sketchSize, opc, est, skim, ref>>

InsertCall ==
    /\ call.ops < MaxSetOps
    /\ \E key \in 0 .. MaxKeys - 1 :
          /\ searchSpace' = FastSetInsert(searchSpace, key)
          /\ call' = [call EXCEPT !.made = TRUE, !.ops = @ + 1, !.op = "Insert",
                                  !.key = key, !.before = searchSpace,
                                  !.inserted = IF key \in Range(@) THEN @
                                               ELSE Append(@, key)]
    /\ UNCHANGED unchangedByFastSet

DeleteByIndexCall ==
    /\ call.ops < MaxSetOps
    /\ \E index \in 0 .. FastSetSize(searchSpace) - 1 :
          /\ searchSpace' = FastSetDeleteByIndex(searchSpace, index)
          /\ call' = [call EXCEPT !.made = TRUE, !.ops = @ + 1, !.op = "DeleteByIndex",
                                  !.key = FastSetKeyByIndex(searchSpace, index),
                                  !.before = searchSpace, !.deleted = TRUE]
    /\ UNCHANGED unchangedByFastSet

DeleteBackCall ==
    /\ call.ops < MaxSetOps
    /\ FastSetSize(searchSpace) > 0
    /\ searchSpace' = FastSetDeleteBack(searchSpace)
    /\ call' = [call EXCEPT !.made = TRUE, !.ops = @ + 1, !.op = "DeleteBack",
                            !.key = FastSetKeyByIndex(searchSpace,
                                                      FastSetSize(searchSpace) - 1),
                            !.before = searchSpace, !.deleted = TRUE]
    /\ UNCHANGED unchangedByFastSet

ClearCall ==
    /\ call.ops < MaxSetOps
    /\ searchSpace' = FastSetClear(searchSpace)
    /\ call' = [call EXCEPT !.made = TRUE, !.ops = @ + 1, !.op = "Clear",
                            !.before = searchSpace, !.inserted = <<>>,
                            !.deleted = FALSE]
    /\ UNCHANGED unchangedByFastSet

NextFastSet == InsertCall \/ DeleteByIndexCall \/ DeleteBackCall \/ ClearCall
SpecFastSet == InitFastSet /\ [][NextFastSet]_vars

\* C21: after any sequence of Insert, DeleteByIndex, DeleteBack and Clear,
\* IsContained(x) is true iff x occurs in the key list, each key occurs
\* there at most once, Size() is the number of contained keys, an Insert of
\* a contained key changed nothing, a Clear left every IsContained false,
\* and when no delete happened since the last Clear KeyByIndex(j) is the
\* j-th distinct key inserted.
C21_FastSetIsASet ==
    LET S == searchSpace
    IN  /\ \A x \in 0 .. MaxKeys - 1 :
              FastSetIsContained(S, x) <=> x \in Range(S.containedKeys)
        /\ \A a, b \in DOMAIN S.containedKeys :
              a # b => S.containedKeys[a] # S.containedKeys[b]
        /\ FastSetSize(S) = Cardinality({x \in 0 .. MaxKeys - 1 : FastSetIsContained(S, x)})
        /\ (call.op = "Insert" /\ FastSetIsContained(call.before, call.key)) =>
              S = call.before
        /\ call.op = "Clear" =>
              /\ \A x \in 0 .. MaxKeys - 1 : ~FastSetIsContained(S, x)
              /\ FastSetSize(S) = 0
        /\ ~call.deleted =>
              /\ FastSetSize(S) = Len(call.inserted)
              /\ \A j \in 0 .. FastSetSize(S) - 1 :
                    FastSetKeyByIndex(S, j) = call.inserted[j + 1]

\* A contained key was inserted again after a second key, with no delete
\* since the last Clear.
C21_ContainedKeyInsertedAgain ==
    /\ call.op = "Insert"
    /\ FastSetIsContained(call.before, call.key)
    /\ FastSetSize(searchSpace) >= 2
    /\ ~call.deleted
    /\ FastSetKeyByIndex(searchSpace, 0) = call.key

(***************************************************************************)
(* Sketch sizes and inverse sketches of SKIM::Run.                         *)
(***************************************************************************)
\* The keys of invSketches whose list holds v.
KeysHolding(r, v) == {key \in DOMAIN r.invSketches : v \in Range(r.invSketches[key])}

BetweenEvaluations(r) == r.pc \in {"grow", "select", "eval", "done"}

C22_State ==
    /\ \A v \in Vertices : skim.sketchSizes[v] >= 0 /\ skim.sketchSizes[v] <= k
    /\ BetweenEvaluations(skim) =>
          /\ \A v \in Vertices : skim.sketchSizes[v] = Cardinality(KeysHolding(skim, v))
          /\ \A key \in DOMAIN skim.invSketches :
                skim.covered[key[2]][key[1]] => skim.invSketches[key] = <<>>

C22_Step ==
    /\ \A key \in DOMAIN skim.invSketches :
          key \notin DOMAIN skim'.invSketches => skim'.covered[key[2]][key[1]]
    /\ BetweenEvaluations(skim') =>
          \A key \in DOMAIN skim.invSketches :
              (skim.invSketches[key] # <<>> /\ skim'.covered[key[2]][key[1]])
                  => key \notin DOMAIN skim'.invSketches

\* C22: whenever no evaluation is under way, and so at the start of every
\* greedy iteration, sketchSizes[v] is the number of keys (s, i) present in
\* invSketches whose list contains v, for every vertex v; a key is erased
\* only in a step after which its pair is covered, and a key with entries
\* whose pair is covered when an evaluation has ended is erased by then;
\* sketchSizes[v] is never below 0 and never above k.
C22_SketchSizesCountInverseSketches == [](C22_State) /\ [][C22_Step]_vars

\* The start of an iteration after a parallel evaluation that erased a key
\* and left a vertex with a sketch entry.
C22_KeyErasedAndSketchLeft ==
    /\ skim.pc \in {"grow", "select"}
    /\ skim.numt > 1
    /\ Len(skim.seedSet) >= 1
    /\ \E v \in Vertices : skim.sketchSizes[v] >= 1
    /\ \E i \in 0 .. l - 1, s \in Vertices :
          skim.processed[i][s] /\ <<s, i>> \notin DOMAIN skim.invSketches

\* The arcs u -> v present in instance i are the pairs of instances[i].
ForwardClosed(r, i) ==
    \A e \in instances[i] : r.covered[i][e[1]] => r.covered[i][e[2]]

\* C23: after every evaluation phase the covered set of each instance is
\* closed under forward reachability: if covered[i][u] holds and the arc
\* u -> v is present in instance i then covered[i][v] holds; and every seed
\* evaluated so far is covered in every instance and has sketch size 0.
C23_CoveredClosedForward ==
    BetweenEvaluations(skim) =>
        /\ \A i \in 0 .. l - 1 : ForwardClosed(skim, i)
        /\ \A a \in DOMAIN skim.seedSet :
              /\ \A i \in 0 .. l - 1 : skim.covered[i][skim.seedSet[a].VertexId]
              /\ skim.sketchSizes[skim.seedSet[a].VertexId] = 0

\* An evaluation has ended in which the seed covered another vertex over a
\* present arc while a third vertex stayed uncovered in that instance.
C23_SeedCoveredASuccessor ==
    /\ BetweenEvaluations(skim)
    /\ Len(skim.seedSet) = 1
    /\ \E i \in 0 .. l - 1 :
          /\ \E e \in instances[i] :
                e[1] = skim.seedSet[1].VertexId /\ e[2] # e[1] /\ skim.covered[i][e[2]]
          /\ \E v \in Vertices : ~skim.covered[i][v]

(***************************************************************************)
(* The two evaluation branches side by side.  At the fork ref becomes a    *)
(* copy of the run; when the parallel branch of skim has drained its       *)
(* queues, ref takes the sequential branch from the copied state.          *)
(***************************************************************************)
InitPar ==
    \E sc \in SkimScenarios :
        /\ Construct(sc)
        /\ oobRead = 0
        /\ instances = SkimInstances(modelType, randomSeed, indeg, binprob, graph, l)
        /\ OracleConstructed
        /\ k \in sc.ks
        /\ \E N \in SeedCounts, numt \in 2 .. MaxThreads :
              /\ skim = RunBegin(N, numt)
              /\ ref = RunBegin(N, numt)
        /\ call = NoCall

ForkFrom ==
    /\ skim.pc = "eval"
    /\ skim.numt > 1
    /\ skim' = ParallelFork(skim)
    /\ ref' = skim
    /\ UNCHANGED unchangedBySKIM

DrainAfter ==
    /\ skim.pc = "par"
    /\ skim.nextInst = l
    /\ skim' = FinishIteration(DrainQueues(skim, 0))
    /\ ref' = FinishIteration(SeqEvaluate(ref, 0))
    /\ UNCHANGED unchangedBySKIM

NextPar == Grow \/ Saturate \/ Select \/ ForkFrom \/ Worker \/ DrainAfter
SpecPar == InitPar /\ [][NextPar]_vars

BucketSets(r) == [j \in DOMAIN r.buck |-> Range(r.buck[j])]

\* What the two branches are compared in.
SameEvaluation(a, b) ==
    /\ a.covered = b.covered
    /\ a.sketchSizes = b.sketchSizes
    /\ DOMAIN a.invSketches = DOMAIN b.invSketches
    /\ BucketSets(a) = BucketSets(b)
    /\ Len(a.seedSet) = Len(b.seedSet)
    /\ a.seedSet[Len(a.seedSet)].VertexId = b.seedSet[Len(b.seedSet)].VertexId
    /\ a.seedSet[Len(a.seedSet)].ExactInfluence = b.seedSet[Len(b.seedSet)].ExactInfluence

C24_Step ==
    (skim.pc = "par" /\ skim'.pc # "par") => SameEvaluation(skim', ref')

\* C24: from the same state and the same seed, the parallel evaluation
\* branch, for any assignment of the instances to the workers, ends with
\* the same covered bitmaps, the same sketchSizes, the same set of
\* invSketches keys, the same bucket contents as sets and the same exact
\* marginal influence as the sequential branch.
C24_ParallelEqualsSequential == [][C24_Step]_vars

\* A parallel evaluation in saturated mode has ended with the buckets in
\* another order than the sequential one leaves them in.
C24_BucketsInAnotherOrder ==
    /\ skim.pc \in {"select", "done"}
    /\ skim.numSaturatedSeeds >= 1
    /\ ref.pc = skim.pc
    /\ SameEvaluation(skim, ref)
    /\ skim.buck # ref.buck

(***************************************************************************)
(* The Estimator as a function of the seed vector.                         *)
(***************************************************************************)
SeedOrderScenarios ==
    {Scenario(4, Ring4, FALSE, "BINARY", 1, 2, 3, 1, {MaxK}),
     Scenario(2, Pair2, FALSE, "WEIGHTED", 1, 10, 3, 2, 1 .. MaxK),
     Scenario(3, Path3, TRUE, "BINARY", 1, 1, 2, 1, {2})}

InitSeedOrder == InitOracle(SeedOrderScenarios)
SpecSeedOrder == InitSeedOrder /\ [][NextEst]_vars

\* C25: the Estimator's result depends only on the set of distinct
\* vertices in S: a seed vector with the same vertices in another order or
\* with repeated vertices gives the same merged (rank, tau) list and the
\* same estimate.
C25_EstimateDependsOnSeedSetOnly ==
    (est.called /\ est.S # <<>>) =>
        \A S2 \in SeedSets(n) :
            Range(S2) = Range(est.S) =>
                \A e2 \in Estimator(sketches, S2, k, n, l) :
                    /\ e2.merged = est.merged
                    /\ e2.estimate = est.estimate

\* A query with a repeated seed and a second seed whose sketch shares a
\* rank with the first under another tau.
C25_RepeatedSeedSharedRank ==
    /\ est.called
    /\ Len(est.S) = 3
    /\ est.S[1] = est.S[3]
    /\ est.S[1] # est.S[2]
    /\ \E a \in SeedList(est.S[1]), b \in SeedList(est.S[2]) : a[1] = b[1] /\ a[2] # b[2]

\* C26: every assertion in the Estimator holds for every non-empty seed
\* set; in particular the bound (i + 2) < num asserted when chunk i is
\* merged with chunk i + 1 at a merge level with num chunks.
C26_EstimatorChecksHold ==
    (est.called /\ est.S # <<>>) => est.failed = {}

(***************************************************************************)
(* The BFS of RunPreprocessing, visit by visit.  A step from opc = "bfs"   *)
(* is the BFS from one source; the search space it leaves holds the        *)
(* vertices it visited, and a local sketch changes only at the visit of    *)
(* its vertex.                                                             *)
(***************************************************************************)
\* The vertices a BFS from the vertices of set visits in instance inst when
\* it expands from exactly the visited vertices whose local sketch had less
\* than limit entries before.
RECURSIVE VisitedWhenExpanding(_, _, _, _)
VisitedWhenExpanding(set, inst, local, limit) ==
    LET more == {e[1] : e \in {e \in inst : e[2] \in set /\ Len(local[e[2]]) < limit}}
    IN  IF more \subseteq set THEN set
        ELSE VisitedWhenExpanding(set \cup more, inst, local, limit)

\* A visited vertex receives the rank iff its local sketch had less than k
\* entries before, and no other local sketch changes.
RankToOpenSketches ==
    LET pair == At(instanceRanks[instI], srcJ)
        visited == Range(searchSpace'.containedKeys)
    IN  \A u \in Vertices :
            localSketches'[u] =
                IF u \in visited /\ Len(localSketches[u]) < k
                THEN Append(localSketches[u], pair[1])
                ELSE localSketches[u]

C27_StepAsClaimed ==
    opc = "bfs" =>
        /\ RankToOpenSketches
        /\ Range(searchSpace'.containedKeys) =
              VisitedWhenExpanding({At(instanceRanks[instI], srcJ)[2]}, instances[instI],
                                   localSketches, k - 1)

\* C27 as claimed: a visited vertex u receives the current rank iff
\* |localSketch[u]| < k before the visit, the BFS does not expand from u
\* when that push made |localSketch[u]| equal to k, and the BFS continues
\* from the other frontier vertices.
C27_NoExpansionFromFilledSketch == [][C27_StepAsClaimed]_vars

C27_Step ==
    opc = "bfs" =>
        /\ RankToOpenSketches
        /\ Range(searchSpace'.containedKeys) =
              VisitedWhenExpanding({At(instanceRanks[instI], srcJ)[2]}, instances[instI],
                                   localSketches, k)

\* C27 amended: a visited vertex u receives the current rank iff
\* |localSketch[u]| < k before the visit, the BFS expands from u exactly
\* when u received the rank, also when that push made |localSketch[u]|
\* equal to k, and the BFS continues from the other frontier vertices.
C27_ExpansionFromEveryRankedVertex == [][C27_Step]_vars

\* A BFS has ended in which a vertex whose sketch the rank filled passed the
\* rank on to another vertex, and a visited vertex was pruned.
C27_FilledSketchPassedRankOn ==
    /\ opc \in {"bfs", "merge"}
    /\ srcJ >= 1
    /\ LET rank == At(instanceRanks[instI], srcJ - 1)[1]
           visited == Range(searchSpace.containedKeys)
       IN  /\ \E e \in instances[instI] :
                 /\ e[1] # e[2]
                 /\ e[2] \in visited
                 /\ Len(localSketches[e[2]]) = k
                 /\ localSketches[e[2]][k] = rank
                 /\ rank \in Range(localSketches[e[1]])
           /\ \E w \in visited : rank \notin Range(localSketches[w])

(***************************************************************************)
(* FastArc::operator< on its own: three arcs with a direction flag each,   *)
(* compared pairwise as std::sort compares them.                           *)
(***************************************************************************)
ValidArcs == {a \in AttachedArcs : a.Forward \/ a.Backward}

InitArcOrder ==
    /\ \E x \in ValidArcs, y \in ValidArcs, z \in ValidArcs :
          call = [made |-> FALSE, x |-> x, y |-> y, z |-> z]
    /\ graph = Detached
    /\ indeg = <<>>
    /\ randomSeed = 0
    /\ modelType = "BINARY"
    /\ binprob = 0
    /\ k = 1
    /\ l = 1
    /\ oobRead = 0
    /\ instances = <<>>
    /\ OracleConstructed
    /\ skim = NoRun
    /\ ref = NoRun

\* The comparisons a sort of the three arcs can make.
CompareArcs ==
    /\ ~call.made
    /\ call' = [call EXCEPT !.made = TRUE] @@
               [less |-> [p \in {call.x, call.y, call.z} \X {call.x, call.y, call.z} |->
                            ArcLess(p[1], p[2])]]
    /\ UNCHANGED <<inputVars, oracleVars, est, skim, ref>>

NextArcOrder == CompareArcs
SpecArcOrder == InitArcOrder /\ [][NextArcOrder]_vars

\* A strict weak ordering on the three arcs: irreflexive, transitive, and
\* with a transitive incomparability.
StrictWeakOrdering(less, arcs) ==
    /\ \A a \in arcs : ~less[<<a, a>>]
    /\ \A a, b, c \in arcs : (less[<<a, b>>] /\ less[<<b, c>>]) => less[<<a, c>>]
    /\ \A a, b, c \in arcs :
          (~less[<<a, b>>] /\ ~less[<<b, a>>] /\ ~less[<<b, c>>] /\ ~less[<<c, b>>])
              => (~less[<<a, c>>] /\ ~less[<<c, a>>])

\* The place of an arc's flags in the order forward and backward, forward
\* only, backward only.
BucketBothFirst(a) == IF a.Forward /\ a.Backward THEN 0 ELSE IF a.Forward THEN 1 ELSE 2

\* The place of an arc's flags in the order forward only, forward and
\* backward, backward only.
BucketForwardFirst(a) == IF a.Forward /\ a.Backward THEN 1 ELSE IF a.Forward THEN 0 ELSE 2

\* C28 as claimed: the arc comparison is a strict weak ordering on valid
\* arcs that orders first by the flag bucket, with (forward, backward) =
\* (1,1) before (1,0) before (0,1), and within a bucket by OtherVertexId
\* ascending.
C28_BothFlagsFirst ==
    call.made =>
        /\ StrictWeakOrdering(call.less, {call.x, call.y, call.z})
        /\ \A p \in DOMAIN call.less :
              call.less[p] <=>
                  \/ BucketBothFirst(p[1]) < BucketBothFirst(p[2])
                  \/ /\ BucketBothFirst(p[1]) = BucketBothFirst(p[2])
                     /\ p[1].OtherVertexId < p[2].OtherVertexId

\* C28 amended: the arc comparison is a strict weak ordering on valid arcs
\* that orders first by the flag bucket, with (forward, backward) = (1,0)
\* before (1,1) before (0,1), and within a bucket by OtherVertexId
\* ascending.
C28_ForwardOnlyFirst ==
    call.made =>
        /\ StrictWeakOrdering(call.less, {call.x, call.y, call.z})
        /\ \A p \in DOMAIN call.less :
              call.less[p] <=>
                  \/ BucketForwardFirst(p[1]) < BucketForwardFirst(p[2])
                  \/ /\ BucketForwardFirst(p[1]) = BucketForwardFirst(p[2])
                     /\ p[1].OtherVertexId < p[2].OtherVertexId

\* Three arcs to the same vertex, one of each flag bucket, compared: the
\* forward-only one comes before the one with both flags.
C28_OneArcOfEachBucket ==
    /\ call.made
    /\ call.x.OtherVertexId = call.y.OtherVertexId
    /\ call.y.OtherVertexId = call.z.OtherVertexId
    /\ call.x.Forward /\ ~call.x.Backward
    /\ call.y.Forward /\ call.y.Backward
    /\ ~call.z.Forward /\ call.z.Backward
    /\ call.less[<<call.x, call.y>>]
    /\ call.less[<<call.y, call.z>>]

(***************************************************************************)
(* CommandLineParser::CommandLineParser.  An argument is the sequence of   *)
(* its characters; argv holds the executable and at most MaxArgs           *)
(* arguments.  One step is one iteration of the for loop; iterations       *)
(* counts them, up to MaxIterations.                                       *)
(***************************************************************************)
MaxArgs == 3
MaxIterations == 5

Executable == <<"s", "k", "i", "m">>
ArgumentWords == {<<"-", "m">>, <<"-", "x">>, <<"v">>, <<>>}

\* currentArgument[0] == '-' (the character at position 0 of an empty
\* string is the terminating zero).
StartsWithDash(word) == Len(word) > 0 /\ word[1] = "-"

\* currentArgument.substr(1).
Substr1(word) == Tail(word)

\* arguments[key] = value.
MapSet(map, key, value) ==
    [x \in DOMAIN map \cup {key} |-> IF x = key THEN value ELSE map[x]]

InitParser ==
    /\ \E m \in 0 .. MaxArgs : \E args \in [1 .. m -> ArgumentWords] :
          call = [made |-> FALSE, argv |-> <<Executable>> \o args, i |-> 1,
                  arguments |-> <<>>, iterations |-> 0]
    /\ graph = Detached
    /\ indeg = <<>>
    /\ randomSeed = 0
    /\ modelType = "BINARY"
    /\ binprob = 0
    /\ k = 1
    /\ l = 1
    /\ oobRead = 0
    /\ instances = <<>>
    /\ OracleConstructed
    /\ skim = NoRun
    /\ ref = NoRun

\* One iteration of for (int i = 1; i < argc;).
ParseArgument ==
    /\ ~call.made
    /\ call.i < Len(call.argv)
    /\ call.iterations < MaxIterations
    /\ LET argc == Len(call.argv)
           currentArgument == At(call.argv, call.i)
           counted == [call EXCEPT !.iterations = @ + 1]
       IN  call' =
             IF StartsWithDash(currentArgument)
             THEN IF call.i = argc - 1 \/ StartsWithDash(At(call.argv, call.i + 1))
                  THEN [counted EXCEPT
                          !.arguments = MapSet(@, Substr1(currentArgument), <<"1">>),
                          !.i = @ + 1]
                  ELSE [counted EXCEPT
                          !.arguments = MapSet(@, Substr1(currentArgument),
                                               At(call.argv, call.i + 1)),
                          !.i = @ + 2]
             ELSE counted
    /\ UNCHANGED <<inputVars, oracleVars, est, skim, ref>>

\* The loop condition fails: the constructor returns.
ParserReturns ==
    /\ ~call.made
    /\ call.i >= Len(call.argv)
    /\ call' = [call EXCEPT !.made = TRUE]
    /\ UNCHANGED <<inputVars, oracleVars, est, skim, ref>>

NextParser == ParseArgument \/ ParserReturns
SpecParser == InitParser /\ [][NextParser]_vars

\* C29: the constructor terminates for every argument vector, also when an
\* argument that does not start with '-' is not the value of a preceding
\* flag: every iteration of the loop consumes an argument, so there are at
\* most argc - 1 iterations; and when it has returned every flag of the
\* vector, recognized or not, is stored under its name.
C29_ParserTerminates ==
    /\ call.iterations <= Len(call.argv) - 1
    /\ call.made =>
          \A j \in 1 .. Len(call.argv) - 1 :
              StartsWithDash(At(call.argv, j)) =>
                  Substr1(At(call.argv, j)) \in DOMAIN call.arguments

(***************************************************************************)
(* main of RunInfluenceOracle.cpp on the parsed command line clp, a map    *)
(* from option names to values.  runs lists the calls of RunQueries: the   *)
(* model they are instantiated with, the kind of queries and the method    *)
(* that generates the seed sets.                                           *)
(***************************************************************************)
ModelWords == {"binary", "trivalency", "weighted", "linear"}
MethodWords == {"uni", "neigh"}

\* CommandLineParser::IsSet and CommandLineParser::Value.
IsSet(clp, argument) == argument \in DOMAIN clp
Value(clp, argument, defaultValue) ==
    IF ~IsSet(clp, argument) THEN defaultValue ELSE clp[argument]

\* The command lines: -i, -m, -g and -a given or not.
CommandLines ==
    {[x \in names |-> IF x = "m" THEN m ELSE IF x = "g" THEN g
                      ELSE IF x = "i" THEN "graph" ELSE "1"] :
        names \in SUBSET {"i", "m", "g", "a"}, m \in ModelWords, g \in MethodWords}

\* RunQueries<modelType>(clp): preprocessing, then the random queries or
\* the query of every vertex.
RunQueries(model, clp) ==
    [model |-> model,
     queries |-> IF ~IsSet(clp, "a") THEN "random" ELSE "every vertex",
     method |-> IF Value(clp, "g", "uni") = "neigh" THEN "NEIGHBORHOOD" ELSE "UNIFORM"]

InitMain ==
    /\ \E clp \in CommandLines :
          call = [made |-> FALSE, clp |-> clp, pc |-> "main", modelStr |-> "", runs |-> <<>>]
    /\ graph = Detached
    /\ indeg = <<>>
    /\ randomSeed = 0
    /\ modelType = "BINARY"
    /\ binprob = 0
    /\ k = 1
    /\ l = 1
    /\ oobRead = 0
    /\ instances = <<>>
    /\ OracleConstructed
    /\ skim = NoRun
    /\ ref = NoRun

\* if (!clp.IsSet("i")) Usage(argv[0]); modelStr = clp.Value("m", "weighted").
MainReadsModel ==
    /\ call.pc = "main"
    /\ call' = IF ~IsSet(call.clp, "i")
               THEN [call EXCEPT !.pc = "exit"]
               ELSE [call EXCEPT !.pc = "if binary",
                                 !.modelStr = Value(call.clp, "m", "weighted")]
    /\ UNCHANGED <<inputVars, oracleVars, est, skim, ref>>

\* if (modelStr == "binary") RunQueries<BINARY>(clp);
MainIfBinary ==
    /\ call.pc = "if binary"
    /\ call' = [call EXCEPT
                  !.pc = "if trivalency",
                  !.runs = IF call.modelStr = "binary"
                           THEN Append(@, RunQueries("BINARY", call.clp)) ELSE @]
    /\ UNCHANGED <<inputVars, oracleVars, est, skim, ref>>

\* if (modelStr == "trivalency") RunQueries<TRIVALENCY>(clp);
\* else RunQueries<WEIGHTED>(clp); return 0;
MainIfTrivalencyElse ==
    /\ call.pc = "if trivalency"
    /\ call' = [call EXCEPT
                  !.pc = "return",
                  !.made = TRUE,
                  !.runs = IF call.modelStr = "trivalency"
                           THEN Append(@, RunQueries("TRIVALENCY", call.clp))
                           ELSE Append(@, RunQueries("WEIGHTED", call.clp))]
    /\ UNCHANGED <<inputVars, oracleVars, est, skim, ref>>

NextMain == MainReadsModel \/ MainIfBinary \/ MainIfTrivalencyElse
SpecMain == InitMain /\ [][NextMain]_vars

\* C30: an invocation of the executable that returns from main has run the
\* preprocessing and query pipeline exactly once, under the model named by
\* -m: BINARY for binary, TRIVALENCY for trivalency, and WEIGHTED for
\* weighted and when -m is absent.
C30_PipelineRunsOnceUnderNamedModel ==
    call.pc = "return" =>
        /\ Len(call.runs) = 1
        /\ IsSet(call.clp, "m") /\ call.clp["m"] = "binary" => call.runs[1].model = "BINARY"
        /\ IsSet(call.clp, "m") /\ call.clp["m"] = "trivalency" =>
              call.runs[1].model = "TRIVALENCY"
        /\ ~IsSet(call.clp, "m") \/ call.clp["m"] = "weighted" =>
              call.runs[1].model = "WEIGHTED"

=============================================================================
